---- MODULE Spec2Model ----
(***************************************************************************)
(* The Axiom rule pipeline: TypeChecker.check over an AST and a contract,  *)
(* then Interpreter.interpret over the same AST and a context.             *)
(* Statements of the top-level program are checked / executed one per      *)
(* step; nested statements and expressions are walked by recursive         *)
(* operators that follow the recursive methods of the two classes.         *)
(***************************************************************************)
EXTENDS Integers, Sequences, FiniteSets, TLC

\* ------------------------------------------------------------------ bounds
\* Largest number of top-level statements of a program.
MaxStmts == 2
\* Integer literals and integer context values range over 0..MaxInt.
MaxInt == 2

\* ------------------------------------------------------------------- types
\* common/AST.ts Type: a primitive name, a ListType or an ObjectType.
TInt == [kind |-> "int"]
TString == [kind |-> "string"]
TBool == [kind |-> "bool"]
TDate == [kind |-> "date"]
TUnknown == [kind |-> "unknown"]
TList(elementType) == [kind |-> "list", elementType |-> elementType]
TObject(properties) == [kind |-> "object", properties |-> properties]

\* typeof t === 'string'
IsPrimitiveType(t) == t.kind \notin {"list", "object"}

\* The empty Record / Map.
EmptyMap == [n \in {} |-> TInt]

\* Map.set / property store: bind k to v, keeping the other keys.
MapSet(m, k, v) == [n \in (DOMAIN m) \cup {k} |-> IF n = k THEN v ELSE m[n]]

\* Map.delete
MapDelete(m, k) == [n \in (DOMAIN m) \ {k} |-> m[n]]

\* --------------------------------------------------------------------- AST
Literal(value, type) == [kind |-> "Literal", value |-> value, type |-> type]
Variable(name) == [kind |-> "Variable", name |-> name]
Binary(left, operator, right) ==
    [kind |-> "Binary", left |-> left, operator |-> operator, right |-> right]
Unary(operator, right) == [kind |-> "Unary", operator |-> operator, right |-> right]
Member(object, property) == [kind |-> "Member", object |-> object, property |-> property]
ListExpr(elements) == [kind |-> "List", elements |-> elements]
ObjectExpr(properties) == [kind |-> "Object", properties |-> properties]
Prop(key, value) == [key |-> key, value |-> value]
Call(callee, arguments) == [kind |-> "Call", callee |-> callee, arguments |-> arguments]
Lambda(parameter, body) == [kind |-> "Lambda", parameter |-> parameter, body |-> body]

VarDecl(name, typeAnnotation, initializer) ==
    [kind |-> "VarDecl", name |-> name, typeAnnotation |-> typeAnnotation,
     initializer |-> initializer]
Assignment(name, value) == [kind |-> "Assignment", name |-> name, value |-> value]
\* An If without else carries hasElse = FALSE (elseBranch is then unused).
IfStmt(condition, thenBranch, hasElse, elseBranch) ==
    [kind |-> "If", condition |-> condition, thenBranch |-> thenBranch,
     hasElse |-> hasElse, elseBranch |-> elseBranch]
BlockStmt(statements) == [kind |-> "Block", statements |-> statements]
ExpressionStmt(expression) == [kind |-> "ExpressionStmt", expression |-> expression]

\* ------------------------------------------------------------------ errors
\* An error is the class of the thrown object and the head of its message.
\* class "TypeError" / "RuntimeError" are the AxiomError subclasses, class
\* "Error" is the plain JavaScript Error.
NoErr == [class |-> "none", msg |-> ""]
Err(class, msg) == [class |-> class, msg |-> msg]

\* ------------------------------------------------------------ type checker
\* Result of inferring an expression: the error thrown (or NoErr), the type
\* returned, and this.variables as the call leaves it.
CkOk(type, vars) == [err |-> NoErr, type |-> type, vars |-> vars]
CkThrow(class, msg, vars) == [err |-> Err(class, msg), type |-> TUnknown, vars |-> vars]

RECURSIVE areTypesEqual(_, _)
areTypesEqual(t1, t2) ==
    IF IsPrimitiveType(t1) /\ IsPrimitiveType(t2)
    THEN IF t1 = TUnknown \/ t2 = TUnknown THEN TRUE ELSE t1 = t2
    ELSE IF ~IsPrimitiveType(t1) /\ ~IsPrimitiveType(t2)
    THEN IF t1.kind = "list" /\ t2.kind = "list"
         THEN areTypesEqual(t1.elementType, t2.elementType)
         ELSE IF t1.kind = "object" /\ t2.kind = "object"
         THEN IF DOMAIN t2.properties = {} THEN TRUE
              ELSE /\ DOMAIN t1.properties = DOMAIN t2.properties
                   /\ \A k \in DOMAIN t1.properties :
                         areTypesEqual(t1.properties[k], t2.properties[k])
         ELSE FALSE
    ELSE FALSE

\* The result type of a binary operator applied to operand types, or the
\* error of the operator's case (checkBinary's switch).
checkBinaryOp(operator, left, right, vars) ==
    CASE operator = "+" ->
            IF left = TInt /\ right = TInt THEN CkOk(TInt, vars)
            ELSE IF left = TString /\ right = TString THEN CkOk(TString, vars)
            ELSE CkThrow("Error", "Operator cannot be applied", vars)
      [] operator \in {"-", "*", "/"} ->
            IF left = TInt /\ right = TInt THEN CkOk(TInt, vars)
            ELSE CkThrow("Error", "Operator cannot be applied", vars)
      [] operator \in {"==", "!="} ->
            IF ~areTypesEqual(left, right)
            THEN IF left = TUnknown \/ right = TUnknown THEN CkOk(TBool, vars)
                 ELSE CkThrow("Error", "Cannot compare", vars)
            ELSE CkOk(TBool, vars)
      [] operator \in {">", ">=", "<", "<="} ->
            IF left = TInt /\ right = TInt THEN CkOk(TBool, vars)
            ELSE IF left = TDate /\ right = TDate THEN CkOk(TBool, vars)
            ELSE CkThrow("Error", "Operator cannot be applied", vars)
      [] operator \in {"&&", "||"} ->
            IF left = TBool /\ right = TBool THEN CkOk(TBool, vars)
            ELSE CkThrow("Error", "Operator cannot be applied", vars)
      [] operator = "in" ->
            IF IsPrimitiveType(right) \/ right.kind # "list"
            THEN CkThrow("Error", "Right operand of in must be a list", vars)
            ELSE IF ~areTypesEqual(left, right.elementType)
            THEN CkThrow("Error", "Type mismatch: Cannot check", vars)
            ELSE CkOk(TBool, vars)
      [] OTHER -> CkThrow("Error", "Unknown operator", vars)

\* Argument count and declared argument types of the global functions.
GlobalFunctions == {"startsWith", "endsWith", "contains", "length", "timestamp"}
FunctionArity(funcName) ==
    IF funcName \in {"startsWith", "endsWith", "contains"} THEN 2 ELSE 1
FunctionResult(funcName) ==
    CASE funcName \in {"startsWith", "endsWith", "contains"} -> TBool
      [] funcName = "length" -> TInt
      [] OTHER -> TDate

\* checkVariable without the guard on an unbound name: the lookup's
\* undefined is passed on as a type that matches anything.
checkVariable_unguarded(expr, vars) ==
    CkOk(IF expr.name \in DOMAIN vars THEN vars[expr.name] ELSE TUnknown, vars)

\* The Variable case of checkExpression: look the name up in this.variables.
checkVariable(expr, vars) ==
    IF expr.name \notin DOMAIN vars
    THEN CkThrow("TypeError", "Undefined variable", vars)
    ELSE CkOk(vars[expr.name], vars)

RECURSIVE checkExpression(_, _)
RECURSIVE checkListRest(_, _, _, _)
RECURSIVE checkObjectProps(_, _, _, _)
RECURSIVE checkHasArg(_, _)
RECURSIVE checkArgs(_, _, _)

checkBinary(expr, vars) ==
    LET l == checkExpression(expr.left, vars) IN
    IF l.err # NoErr THEN l
    ELSE LET r == checkExpression(expr.right, l.vars) IN
         IF r.err # NoErr THEN r
         ELSE checkBinaryOp(expr.operator, l.type, r.type, r.vars)

checkUnary(expr, vars) ==
    LET r == checkExpression(expr.right, vars) IN
    IF r.err # NoErr THEN r
    ELSE CASE expr.operator = "!" ->
                 IF r.type # TBool
                 THEN CkThrow("Error", "Operator ! can only be applied to boolean", r.vars)
                 ELSE CkOk(TBool, r.vars)
           [] expr.operator = "-" ->
                 IF r.type # TInt
                 THEN CkThrow("Error", "Operator - can only be applied to integer", r.vars)
                 ELSE CkOk(TInt, r.vars)
           [] OTHER -> CkThrow("Error", "Unknown unary operator", r.vars)

\* checkMember without the test that the property is declared: the lookup's
\* undefined is passed on as a type that matches anything.
checkMember_noPropertyTest(expr, vars) ==
    LET o == checkExpression(expr.object, vars) IN
    IF o.err # NoErr THEN o
    ELSE IF IsPrimitiveType(o.type) \/ o.type.kind # "object"
    THEN CkThrow("Error", "Only objects have properties", o.vars)
    ELSE CkOk(IF expr.property \in DOMAIN o.type.properties
              THEN o.type.properties[expr.property] ELSE TUnknown, o.vars)

checkMember(expr, vars) ==
    LET o == checkExpression(expr.object, vars) IN
    IF o.err # NoErr THEN o
    ELSE IF IsPrimitiveType(o.type) \/ o.type.kind # "object"
    THEN CkThrow("Error", "Only objects have properties", o.vars)
    ELSE IF expr.property \notin DOMAIN o.type.properties
    THEN CkThrow("Error", "Property does not exist", o.vars)
    ELSE CkOk(o.type.properties[expr.property], o.vars)

\* The loop of checkList over elements[i..], firstType already inferred.
checkListRest(elements, i, firstType, vars) ==
    IF i > Len(elements) THEN CkOk(TList(firstType), vars)
    ELSE LET e == checkExpression(elements[i], vars) IN
         IF e.err # NoErr THEN e
         ELSE IF ~areTypesEqual(e.type, firstType)
         THEN CkThrow("Error", "List elements must be homogeneous", e.vars)
         ELSE checkListRest(elements, i + 1, firstType, e.vars)

checkList(expr, vars) ==
    IF Len(expr.elements) = 0 THEN CkOk(TList(TUnknown), vars)
    ELSE LET f == checkExpression(expr.elements[1], vars) IN
         IF f.err # NoErr THEN f
         ELSE checkListRest(expr.elements, 2, f.type, f.vars)

\* The loop of checkObject over properties[i..], acc the record built so far.
checkObjectProps(properties, i, acc, vars) ==
    IF i > Len(properties) THEN CkOk(TObject(acc), vars)
    ELSE LET p == checkExpression(properties[i].value, vars) IN
         IF p.err # NoErr THEN p
         ELSE checkObjectProps(properties, i + 1,
                               MapSet(acc, properties[i].key, p.type), p.vars)

checkObject(expr, vars) == checkObjectProps(expr.properties, 1, EmptyMap, vars)

checkHasArg(expr, vars) ==
    IF expr.object.kind = "Variable"
    THEN IF expr.object.name \notin DOMAIN vars
         THEN CkThrow("TypeError", "Undefined variable", vars)
         ELSE CkOk(TBool, vars)
    ELSE IF expr.object.kind = "Member"
    THEN checkHasArg(expr.object, vars)
    ELSE LET o == checkExpression(expr.object, vars) IN
         IF o.err # NoErr THEN o ELSE CkOk(TBool, o.vars)

\* checkArgType for arguments[i..]: every global function takes strings.
checkArgs(expr, i, vars) ==
    IF i > Len(expr.arguments) THEN CkOk(FunctionResult(expr.callee.name), vars)
    ELSE LET a == checkExpression(expr.arguments[i], vars) IN
         IF a.err # NoErr THEN a
         ELSE IF ~areTypesEqual(a.type, TString)
         THEN CkThrow("Error", "Type mismatch in argument", a.vars)
         ELSE checkArgs(expr, i + 1, a.vars)

\* checkMacro that leaves the parameter in scope after the body.
checkMacro_keepsParameter(expr, vars) ==
    LET l == checkExpression(expr.callee.object, vars) IN
    IF l.err # NoErr THEN l
    ELSE IF IsPrimitiveType(l.type) \/ l.type.kind # "list"
    THEN CkThrow("Error", "Macro can only be used on lists", l.vars)
    ELSE IF Len(expr.arguments) # 1 \/ expr.arguments[1].kind # "Lambda"
    THEN CkThrow("Error", "Macro expects a lambda argument", l.vars)
    ELSE LET lambda == expr.arguments[1] IN
         IF lambda.parameter \in DOMAIN l.vars
         THEN CkThrow("Error", "shadows existing variable", l.vars)
         ELSE LET b == checkExpression(lambda.body,
                                       MapSet(l.vars, lambda.parameter, l.type.elementType)) IN
              IF b.err # NoErr THEN b
              ELSE IF b.type # TBool
              THEN CkThrow("Error", "Macro predicate must return boolean", b.vars)
              ELSE CkOk(TBool, b.vars)

\* The list macros x.exists(p, body) and x.all(p, body).
checkMacro(expr, vars) ==
    LET l == checkExpression(expr.callee.object, vars) IN
    IF l.err # NoErr THEN l
    ELSE IF IsPrimitiveType(l.type) \/ l.type.kind # "list"
    THEN CkThrow("Error", "Macro can only be used on lists", l.vars)
    ELSE IF Len(expr.arguments) # 1 \/ expr.arguments[1].kind # "Lambda"
    THEN CkThrow("Error", "Macro expects a lambda argument", l.vars)
    ELSE LET lambda == expr.arguments[1] IN
         IF lambda.parameter \in DOMAIN l.vars
         THEN CkThrow("Error", "shadows existing variable", l.vars)
         ELSE LET b == checkExpression(lambda.body,
                                       MapSet(l.vars, lambda.parameter, l.type.elementType)) IN
              IF b.err # NoErr THEN b
              ELSE LET after == MapDelete(b.vars, lambda.parameter) IN
                   IF b.type # TBool
                   THEN CkThrow("Error", "Macro predicate must return boolean", after)
                   ELSE CkOk(TBool, after)

checkCall(expr, vars) ==
    IF expr.callee.kind = "Variable" /\ expr.callee.name = "has"
    THEN IF Len(expr.arguments) # 1
         THEN CkThrow("Error", "Macro has expects exactly 1 argument", vars)
         ELSE IF expr.arguments[1].kind # "Member"
         THEN CkThrow("Error", "Macro has expects a property access", vars)
         ELSE checkHasArg(expr.arguments[1], vars)
    ELSE IF expr.callee.kind = "Member" /\ expr.callee.property \in {"exists", "all"}
    THEN checkMacro(expr, vars)
    ELSE IF expr.callee.kind = "Variable" /\ expr.callee.name \in GlobalFunctions
    THEN IF Len(expr.arguments) # FunctionArity(expr.callee.name)
         THEN CkThrow("Error", "Function expects a different argument count", vars)
         ELSE checkArgs(expr, 1, vars)
    ELSE CkThrow("Error", "Unknown function call or macro", vars)

checkExpression(expr, vars) ==
    CASE expr.kind = "Binary" -> checkBinary(expr, vars)
      [] expr.kind = "Unary" -> checkUnary(expr, vars)
      [] expr.kind = "Literal" -> CkOk(expr.type, vars)
      [] expr.kind = "Variable" -> checkVariable(expr, vars)
      [] expr.kind = "Member" -> checkMember(expr, vars)
      [] expr.kind = "List" -> checkList(expr, vars)
      [] expr.kind = "Call" -> checkCall(expr, vars)
      [] expr.kind = "Lambda" -> CkThrow("Error", "Lambdas are only allowed as arguments to macros", vars)
      [] expr.kind = "Object" -> checkObject(expr, vars)
      [] OTHER -> CkThrow("Error", "Unknown expression kind", vars)

\* -------------------------------------------------- type checker: statements
\* Result of checking a statement: the error thrown (or NoErr) and
\* this.variables as the call leaves it.
StOk(vars) == [err |-> NoErr, vars |-> vars]
StThrow(class, msg, vars) == [err |-> Err(class, msg), vars |-> vars]

\* checkVarDecl without the test of this.variables.has(stmt.name).
checkVarDecl_noDuplicateTest(stmt, vars) ==
    LET init == checkExpression(stmt.initializer, vars) IN
    IF init.err # NoErr THEN [err |-> init.err, vars |-> init.vars]
    ELSE IF ~areTypesEqual(init.type, stmt.typeAnnotation)
    THEN StThrow("TypeError", "Type mismatch", init.vars)
    ELSE StOk(MapSet(init.vars, stmt.name, stmt.typeAnnotation))

\* checkVarDecl binding the name to the initializer's type.
checkVarDecl_bindsInitializerType(stmt, vars) ==
    LET init == checkExpression(stmt.initializer, vars) IN
    IF init.err # NoErr THEN [err |-> init.err, vars |-> init.vars]
    ELSE IF ~areTypesEqual(init.type, stmt.typeAnnotation)
    THEN StThrow("TypeError", "Type mismatch", init.vars)
    ELSE IF stmt.name \in DOMAIN init.vars
    THEN StThrow("TypeError", "already declared", init.vars)
    ELSE StOk(MapSet(init.vars, stmt.name, init.type))

checkVarDecl(stmt, vars) ==
    LET init == checkExpression(stmt.initializer, vars) IN
    IF init.err # NoErr THEN [err |-> init.err, vars |-> init.vars]
    ELSE IF ~areTypesEqual(init.type, stmt.typeAnnotation)
    THEN StThrow("TypeError", "Type mismatch", init.vars)
    ELSE IF stmt.name \in DOMAIN init.vars
    THEN StThrow("TypeError", "already declared", init.vars)
    ELSE StOk(MapSet(init.vars, stmt.name, stmt.typeAnnotation))

checkAssignment(stmt, vars) ==
    IF stmt.name \notin DOMAIN vars
    THEN StThrow("TypeError", "Undefined variable", vars)
    ELSE LET value == checkExpression(stmt.value, vars) IN
         IF value.err # NoErr THEN [err |-> value.err, vars |-> value.vars]
         ELSE IF ~areTypesEqual(vars[stmt.name], value.type)
         THEN StThrow("TypeError", "Type mismatch", value.vars)
         ELSE StOk(value.vars)

RECURSIVE checkStatement(_, _)
RECURSIVE checkBlockFrom(_, _, _)

checkIf(stmt, vars) ==
    LET c == checkExpression(stmt.condition, vars) IN
    IF c.err # NoErr THEN [err |-> c.err, vars |-> c.vars]
    ELSE IF c.type # TBool
    THEN StThrow("TypeError", "If condition must be a boolean", c.vars)
    ELSE LET t == checkStatement(stmt.thenBranch, c.vars) IN
         IF t.err # NoErr THEN t
         ELSE IF stmt.hasElse THEN checkStatement(stmt.elseBranch, t.vars)
         ELSE t

\* The loop of checkBlock over statements[i..].
checkBlockFrom(statements, i, vars) ==
    IF i > Len(statements) THEN StOk(vars)
    ELSE LET s == checkStatement(statements[i], vars) IN
         IF s.err # NoErr THEN s
         ELSE checkBlockFrom(statements, i + 1, s.vars)

checkBlock(stmt, vars) == checkBlockFrom(stmt.statements, 1, vars)

checkStatement(stmt, vars) ==
    CASE stmt.kind = "VarDecl" -> checkVarDecl(stmt, vars)
      [] stmt.kind = "If" -> checkIf(stmt, vars)
      [] stmt.kind = "Block" -> checkBlock(stmt, vars)
      [] stmt.kind = "Assignment" -> checkAssignment(stmt, vars)
      [] stmt.kind = "ExpressionStmt" ->
            LET e == checkExpression(stmt.expression, vars) IN
            [err |-> e.err, vars |-> e.vars]
      [] OTHER -> StThrow("Error", "Unknown statement kind", vars)

\* validateObjectMatch: NoErr when it returns, the error it throws otherwise.
validateObjectMatch(expected, actual) ==
    IF /\ ~IsPrimitiveType(expected) /\ expected.kind = "object"
       /\ ~IsPrimitiveType(actual) /\ actual.kind = "object"
    THEN IF \E key \in DOMAIN expected.properties :
               \/ key \notin DOMAIN actual.properties
               \/ ~areTypesEqual(expected.properties[key], actual.properties[key])
         THEN Err("TypeError", "Return type mismatch")
         ELSE NoErr
    ELSE Err("TypeError", "Return type mismatch")

\* The output-contract validation check() runs on the last statement, after
\* the statement itself has been checked.
checkOutput(stmt, outputs, vars) ==
    IF stmt.kind # "ExpressionStmt"
    THEN StThrow("TypeError", "script does not end with an expression", vars)
    ELSE LET last == checkExpression(stmt.expression, vars) IN
         IF last.err # NoErr THEN [err |-> last.err, vars |-> last.vars]
         ELSE IF ~areTypesEqual(outputs, last.type)
         THEN [err |-> validateObjectMatch(outputs, last.type), vars |-> last.vars]
         ELSE StOk(last.vars)

\* One iteration of the loop of check(): checkStatement, then the output
\* validation when the statement is the last one and outputs are declared.
checkIteration(statements, i, contract, vars) ==
    LET s == checkStatement(statements[i], vars) IN
    IF s.err # NoErr THEN s
    ELSE IF i = Len(statements) /\ contract.hasOutputs
    THEN checkOutput(statements[i], contract.outputs, s.vars)
    ELSE s

\* ------------------------------------------------------------ runtime values
\* The interpreter computes on JavaScript values.  A number is
\* sgn * num * 2^exp / den with num odd and num/den in lowest terms (den
\* odd when exp > 0): den = 1 for an integer, den = 0 for Infinity (num = 1)
\* and NaN (num = 0); sgn = -1 with num = 0 is -0.  With num and den far
\* below 2^53 these are doubles and the arithmetic below is exact, as it is
\* on doubles; a quotient that is not an integer is kept as the exact
\* fraction.  Arrays, objects and Dates carry the identity (ref) of the
\* allocation that created them.
VScaled(sgn, num, den, exp) ==
    [t |-> "number", sgn |-> sgn, num |-> num, den |-> den, exp |-> exp]
VNum(sgn, num, den) == VScaled(sgn, num, den, 0)
VNaN == VNum(1, 0, 0)
VInfinity(sgn) == VNum(sgn, 1, 0)

\* The element of a one-element set. {e : r \in {v}} is e with r bound to
\* the value of v, evaluated once.
Only(S) == CHOOSE x \in S : TRUE

RECURSIVE GCD(_, _)
GCD(a, b) == IF b = 0 THEN a ELSE GCD(b, a % b)

Min(a, b) == IF a <= b THEN a ELSE b
Pow2(k) == 2 ^ k
\* How many times 2 divides n > 0.
RECURSIVE TwoAdic(_)
TwoAdic(n) == IF n % 2 = 1 THEN 0 ELSE 1 + TwoAdic(n \div 2)

\* The number sgn * num * 2^exp / den brought to the representation above.
Normalize(sgn, num, den, exp) ==
    IF den = 0 THEN (IF num = 0 THEN VNaN ELSE VInfinity(sgn))
    ELSE IF num = 0 THEN VNum(sgn, 0, 1)
    ELSE Only({Only({Only({VScaled(sgn, (num \div g) \div Pow2(kn),
                                    (den \div g) \div Pow2(kd), exp + kn - kd) :
                           kd \in {Min(TwoAdic(den \div g), exp + kn)}}) :
                     kn \in {TwoAdic(num \div g)}}) :
               g \in {GCD(num, den)}})

VInt(n) == Normalize(IF n < 0 THEN -1 ELSE 1, IF n < 0 THEN 0 - n ELSE n, 1, 0)
VStr(s) == [t |-> "string", s |-> s]
VBool(b) == [t |-> "boolean", b |-> b]
VUndefined == [t |-> "undefined"]
VNull == [t |-> "null"]
VList(ref, elems) == [t |-> "array", ref |-> ref, elems |-> elems]
VObj(ref, props) == [t |-> "object", ref |-> ref, props |-> props]
VDate(ref, ms) == [t |-> "date", ref |-> ref, ms |-> ms]

IsNaN(a) == a.num = 0 /\ a.den = 0
IsInfinite(a) == a.num # 0 /\ a.den = 0
IsZero(a) == a.num = 0 /\ a.den # 0
\* Number.isInteger
IsInteger(a) == a.den = 1

\* ToNumber of the operands that reach arithmetic: numbers, and undefined
\* (a variable the rule never bound), which converts to NaN.
ToNumber(v) ==
    CASE v.t = "number" -> v
      [] v.t = "undefined" -> VNaN
      [] v.t = "null" -> VNum(1, 0, 1)
      [] v.t = "boolean" -> VNum(1, IF v.b THEN 1 ELSE 0, 1)

\* ToString of the operands that reach string concatenation and String().
ToStr(v) ==
    CASE v.t = "string" -> v.s
      [] v.t = "undefined" -> "undefined"
      [] v.t = "null" -> "null"
      [] v.t = "boolean" -> IF v.b THEN "true" ELSE "false"

NumNeg(a) == IF IsNaN(a) THEN VNaN ELSE [a EXCEPT !.sgn = 0 - a.sgn]

\* a + b.  The operands are brought to their smaller exponent.
NumAdd(a, b) ==
    IF IsNaN(a) \/ IsNaN(b) THEN VNaN
    ELSE IF IsInfinite(a) /\ IsInfinite(b)
    THEN (IF a.sgn = b.sgn THEN a ELSE VNaN)
    ELSE IF IsInfinite(a) THEN a
    ELSE IF IsInfinite(b) THEN b
    ELSE Only({Only({IF n = 0
                     THEN (IF IsZero(a) /\ IsZero(b) /\ a.sgn = -1 /\ b.sgn = -1
                           THEN VNum(-1, 0, 1) ELSE VNum(1, 0, 1))
                     ELSE Normalize(IF n < 0 THEN -1 ELSE 1, IF n < 0 THEN 0 - n ELSE n,
                                    a.den * b.den, m) :
                     n \in {a.sgn * a.num * Pow2(a.exp - m) * b.den
                            + b.sgn * b.num * Pow2(b.exp - m) * a.den}}) :
               m \in {Min(a.exp, b.exp)}})

NumSub(a, b) == NumAdd(a, NumNeg(b))

NumMul(a, b) ==
    IF IsNaN(a) \/ IsNaN(b) THEN VNaN
    ELSE IF (IsZero(a) /\ IsInfinite(b)) \/ (IsInfinite(a) /\ IsZero(b)) THEN VNaN
    ELSE Normalize(a.sgn * b.sgn, a.num * b.num, a.den * b.den, a.exp + b.exp)

NumDiv(a, b) ==
    IF IsNaN(a) \/ IsNaN(b) THEN VNaN
    ELSE IF (IsZero(a) /\ IsZero(b)) \/ (IsInfinite(a) /\ IsInfinite(b)) THEN VNaN
    ELSE IF a.exp >= b.exp
    THEN Normalize(a.sgn * b.sgn, a.num * b.den, a.den * b.num, a.exp - b.exp)
    ELSE Normalize(a.sgn * b.sgn, a.num * b.den, a.den * b.num * Pow2(b.exp - a.exp), 0)

\* a === b on numbers
NumEq(a, b) ==
    IF IsNaN(a) \/ IsNaN(b) THEN FALSE
    ELSE IF IsZero(a) /\ IsZero(b) THEN TRUE
    ELSE a = b

\* a < b on numbers.  Of two finite numbers whose exponents differ by more
\* than 30, the one with the larger exponent is the larger in magnitude.
NumLess(a, b) ==
    IF IsNaN(a) \/ IsNaN(b) THEN FALSE
    ELSE IF IsInfinite(a) THEN a.sgn = -1 /\ ~(IsInfinite(b) /\ b.sgn = -1)
    ELSE IF IsInfinite(b) THEN b.sgn = 1
    ELSE LET m == Min(a.exp, b.exp) IN
         IF a.exp - m > 30 THEN a.sgn = -1
         ELSE IF b.exp - m > 30 THEN b.sgn = 1
         ELSE a.sgn * a.num * Pow2(a.exp - m) * b.den
              < b.sgn * b.num * Pow2(b.exp - m) * a.den

\* JavaScript truthiness: if (v), v && w, v || w, !v
Truthy(v) ==
    CASE v.t = "boolean" -> v.b
      [] v.t = "number" -> ~IsNaN(v) /\ ~IsZero(v)
      [] v.t = "string" -> v.s # ""
      [] v.t \in {"undefined", "null"} -> FALSE
      [] OTHER -> TRUE

\* left === right
StrictEquals(left, right) ==
    IF left.t # right.t THEN FALSE
    ELSE CASE left.t = "number" -> NumEq(left, right)
           [] left.t \in {"array", "object", "date"} -> left.ref = right.ref
           [] OTHER -> left = right

\* The SameValueZero comparison of Array.prototype.includes.
SameValueZero(a, b) ==
    IF a.t = "number" /\ b.t = "number" /\ IsNaN(a) /\ IsNaN(b) THEN TRUE
    ELSE StrictEquals(a, b)

\* left + right
JsAdd(left, right) ==
    IF left.t = "string" \/ right.t = "string"
    THEN VStr(ToStr(left) \o ToStr(right))
    ELSE NumAdd(ToNumber(left), ToNumber(right))

\* String.prototype.startsWith / endsWith / includes
StartsWith(s, p) == Len(p) <= Len(s) /\ SubSeq(s, 1, Len(p)) = p
EndsWith(s, p) == Len(p) <= Len(s) /\ SubSeq(s, Len(s) - Len(p) + 1, Len(s)) = p
Includes(s, p) ==
    \E k \in 0..Len(s) : k + Len(p) <= Len(s) /\ SubSeq(s, k + 1, k + Len(p)) = p

\* new Date(string).getTime(): the instants of the date strings of the
\* model, counted in days from 2023-01-01; any other string is an Invalid
\* Date, whose time is NaN (reported here as -1).
DateStrings == {"2023-01-01", "2023-01-02"}
DateTime(s) ==
    CASE s = "2023-01-01" -> 0
      [] s = "2023-01-02" -> 1
      [] OTHER -> -1

\* -------------------------------------------------------------- interpreter
\* Result of evaluating an expression or executing a statement: the error
\* thrown (or NoErr), the value returned, this.environment as the call leaves
\* it, and the next unused allocation identity.
EvOk(val, env, h) == [err |-> NoErr, val |-> val, env |-> env, h |-> h]
EvThrow(class, msg, env, h) ==
    [err |-> Err(class, msg), val |-> VUndefined, env |-> env, h |-> h]

\* Map.get: the bound value, undefined for an unbound name.
MapGet(env, name) == IF name \in DOMAIN env THEN env[name] ELSE VUndefined

\* typeof v === 'object' && v !== null
IsObjectLike(v) == v.t \in {"array", "object", "date"}

\* property in object, for the property names of the model (none of them is
\* an array index or a name found on a prototype).
HasProperty(object, property) ==
    object.t = "object" /\ property \in DOMAIN object.props

evaluateComparison(left, right, operator, env, h) ==
    LET cmp(a, b) ==
            CASE operator = ">" -> NumLess(b, a)
              [] operator = ">=" -> NumLess(b, a) \/ NumEq(a, b)
              [] operator = "<" -> NumLess(a, b)
              [] operator = "<=" -> NumLess(a, b) \/ NumEq(a, b)
    IN  IF left.t = "number" /\ right.t = "number"
        THEN EvOk(VBool(cmp(left, right)), env, h)
        ELSE IF left.t = "date" /\ right.t = "date"
        THEN EvOk(VBool(cmp(VInt(left.ms), VInt(right.ms))), env, h)
        ELSE EvThrow("Error", "Cannot compare", env, h)

\* The switch of evaluateBinary on two evaluated operands.
evaluateBinaryOp(operator, left, right, env, h) ==
    CASE operator = "+" -> EvOk(JsAdd(left, right), env, h)
      [] operator = "-" -> EvOk(NumSub(ToNumber(left), ToNumber(right)), env, h)
      [] operator = "*" -> EvOk(NumMul(ToNumber(left), ToNumber(right)), env, h)
      [] operator = "/" -> EvOk(NumDiv(ToNumber(left), ToNumber(right)), env, h)
      [] operator = "==" -> EvOk(VBool(StrictEquals(left, right)), env, h)
      [] operator = "!=" -> EvOk(VBool(~StrictEquals(left, right)), env, h)
      [] operator \in {">", ">=", "<", "<="} ->
            evaluateComparison(left, right, operator, env, h)
      [] operator = "&&" -> EvOk(IF Truthy(left) THEN right ELSE left, env, h)
      [] operator = "||" -> EvOk(IF Truthy(left) THEN left ELSE right, env, h)
      [] operator = "in" ->
            CASE right.t = "array" ->
                    EvOk(VBool(\E k \in 1..Len(right.elems) :
                                  SameValueZero(right.elems[k], left)), env, h)
              [] right.t = "string" ->
                    EvOk(VBool(Includes(right.s, ToStr(left))), env, h)
              [] OTHER -> EvThrow("NativeTypeError", "includes is not a function", env, h)
      [] OTHER -> EvThrow("Error", "Unknown operator", env, h)

\* The i-th evaluated argument, undefined when the call has fewer.
Arg(args, i) == IF i <= Len(args) THEN args[i] ELSE VUndefined

\* evaluateGlobal with a timestamp that adds a reading of a clock (here the
\* allocation count) to the parsed instant.
evaluateGlobal_clock(funcName, args, env, h) ==
    CASE funcName = "startsWith" ->
            EvOk(VBool(StartsWith(ToStr(Arg(args, 1)), ToStr(Arg(args, 2)))), env, h)
      [] funcName = "endsWith" ->
            EvOk(VBool(EndsWith(ToStr(Arg(args, 1)), ToStr(Arg(args, 2)))), env, h)
      [] funcName = "contains" ->
            EvOk(VBool(Includes(ToStr(Arg(args, 1)), ToStr(Arg(args, 2)))), env, h)
      [] funcName = "length" ->
            EvOk(VInt(Len(ToStr(Arg(args, 1)))), env, h)
      [] funcName = "timestamp" ->
            LET a == Arg(args, 1)
                ms == IF a.t = "string" THEN DateTime(a.s) ELSE -1
            IN  IF ms < 0 THEN EvThrow("Error", "Invalid date string", env, h + 1)
                ELSE EvOk(VDate(h, ms + h), env, h + 1)
      [] OTHER -> EvThrow("Error", "Unknown function call or macro", env, h)

\* The switch of evaluateCall over the global functions, on evaluated args.
evaluateGlobal(funcName, args, env, h) ==
    CASE funcName = "startsWith" ->
            EvOk(VBool(StartsWith(ToStr(Arg(args, 1)), ToStr(Arg(args, 2)))), env, h)
      [] funcName = "endsWith" ->
            EvOk(VBool(EndsWith(ToStr(Arg(args, 1)), ToStr(Arg(args, 2)))), env, h)
      [] funcName = "contains" ->
            EvOk(VBool(Includes(ToStr(Arg(args, 1)), ToStr(Arg(args, 2)))), env, h)
      [] funcName = "length" ->
            EvOk(VInt(Len(ToStr(Arg(args, 1)))), env, h)
      [] funcName = "timestamp" ->
            LET a == Arg(args, 1)
                ms == IF a.t = "string" THEN DateTime(a.s) ELSE -1
            IN  IF ms < 0 THEN EvThrow("Error", "Invalid date string", env, h + 1)
                ELSE EvOk(VDate(h, ms), env, h + 1)
      [] OTHER -> EvThrow("Error", "Unknown function call or macro", env, h)

RECURSIVE evaluate(_, _, _)
RECURSIVE evaluateElements(_, _, _, _, _)
RECURSIVE evaluateProperties(_, _, _, _, _)
RECURSIVE macroLoop(_, _, _, _, _, _)

evaluateBinary(expr, env, h) ==
    LET l == evaluate(expr.left, env, h) IN
    IF l.err # NoErr THEN l
    ELSE LET r == evaluate(expr.right, l.env, l.h) IN
         IF r.err # NoErr THEN r
         ELSE evaluateBinaryOp(expr.operator, l.val, r.val, r.env, r.h)

evaluateUnary(expr, env, h) ==
    LET r == evaluate(expr.right, env, h) IN
    IF r.err # NoErr THEN r
    ELSE CASE expr.operator = "!" -> EvOk(VBool(~Truthy(r.val)), r.env, r.h)
           [] expr.operator = "-" -> EvOk(NumNeg(ToNumber(r.val)), r.env, r.h)
           [] OTHER -> EvThrow("Error", "Unknown unary operator", r.env, r.h)

\* evaluateMember reading a missing property as undefined, as object[property]
\* does, instead of throwing.
evaluateMember_undefinedWhenMissing(expr, env, h) ==
    LET o == evaluate(expr.object, env, h) IN
    IF o.err # NoErr THEN o
    ELSE IF ~IsObjectLike(o.val)
    THEN EvThrow("Error", "Only objects have properties", o.env, o.h)
    ELSE IF ~HasProperty(o.val, expr.property)
    THEN EvOk(VUndefined, o.env, o.h)
    ELSE EvOk(o.val.props[expr.property], o.env, o.h)

evaluateMember(expr, env, h) ==
    LET o == evaluate(expr.object, env, h) IN
    IF o.err # NoErr THEN o
    ELSE IF ~IsObjectLike(o.val)
    THEN EvThrow("Error", "Only objects have properties", o.env, o.h)
    ELSE IF ~HasProperty(o.val, expr.property)
    THEN EvThrow("Error", "Property does not exist", o.env, o.h)
    ELSE EvOk(o.val.props[expr.property], o.env, o.h)

\* elements.map(e => this.evaluate(e)) from elements[i], acc the values so
\* far; val is the sequence of values.
evaluateElements(elements, i, acc, env, h) ==
    IF i > Len(elements) THEN EvOk(acc, env, h)
    ELSE LET e == evaluate(elements[i], env, h) IN
         IF e.err # NoErr THEN e
         ELSE evaluateElements(elements, i + 1, Append(acc, e.val), e.env, e.h)

evaluateList(expr, env, h) ==
    LET es == evaluateElements(expr.elements, 1, <<>>, env, h) IN
    IF es.err # NoErr THEN es
    ELSE EvOk(VList(es.h, es.val), es.env, es.h + 1)

\* The loop of evaluateObject from properties[i], acc the object so far.
evaluateProperties(properties, i, acc, env, h) ==
    IF i > Len(properties) THEN EvOk(acc, env, h)
    ELSE LET p == evaluate(properties[i].value, env, h) IN
         IF p.err # NoErr THEN p
         ELSE evaluateProperties(properties, i + 1,
                                 MapSet(acc, properties[i].key, p.val), p.env, p.h)

evaluateObject(expr, env, h) ==
    LET ps == evaluateProperties(expr.properties, 1, EmptyMap, env, h + 1) IN
    IF ps.err # NoErr THEN ps
    ELSE EvOk(VObj(h, ps.val), ps.env, ps.h)

\* has(arg): try { evaluate(arg); return true } catch (e) { return false }
evaluateHas(expr, env, h) ==
    IF Len(expr.arguments) = 0 THEN EvOk(VBool(FALSE), env, h)
    ELSE LET a == evaluate(expr.arguments[1], env, h) IN
         IF a.err # NoErr THEN EvOk(VBool(FALSE), a.env, a.h)
         ELSE EvOk(VBool(TRUE), a.env, a.h)

\* macroLoop evaluating the body twice on every element it visits.
macroLoop_visitsTwice(method, list, i, lambda, env, h) ==
    IF i > Len(list) THEN EvOk(VBool(method = "all"), env, h)
    ELSE LET a == evaluate(lambda.body, MapSet(env, lambda.parameter, list[i]), h)
             b == evaluate(lambda.body, MapSet(a.env, lambda.parameter, list[i]), a.h)
         IN  IF b.err # NoErr THEN b
             ELSE IF method = "exists" /\ b.val = VBool(TRUE) THEN EvOk(VBool(TRUE), b.env, b.h)
             ELSE IF method = "all" /\ b.val = VBool(FALSE) THEN EvOk(VBool(FALSE), b.env, b.h)
             ELSE macroLoop(method, list, i + 1, lambda, b.env, b.h)

\* The for loop of a list macro from list[i], inside the try block.
macroLoop(method, list, i, lambda, env, h) ==
    IF i > Len(list) THEN EvOk(VBool(method = "all"), env, h)
    ELSE LET b == evaluate(lambda.body, MapSet(env, lambda.parameter, list[i]), h) IN
         IF b.err # NoErr THEN b
         ELSE IF method = "exists" /\ b.val = VBool(TRUE) THEN EvOk(VBool(TRUE), b.env, b.h)
         ELSE IF method = "all" /\ b.val = VBool(FALSE) THEN EvOk(VBool(FALSE), b.env, b.h)
         ELSE macroLoop(method, list, i + 1, lambda, b.env, b.h)

\* restoreParameter that deletes the parameter whatever was bound before.
restoreParameter_alwaysDeletes(env, paramName, hasPrevious, previousValue) ==
    MapDelete(env, paramName)

\* The finally block of a list macro: restore the parameter's binding.
restoreParameter(env, paramName, hasPrevious, previousValue) ==
    IF hasPrevious THEN MapSet(env, paramName, previousValue)
    ELSE MapDelete(env, paramName)

evaluateMacro(expr, env, h) ==
    LET l == evaluate(expr.callee.object, env, h) IN
    IF l.err # NoErr THEN l
    ELSE IF l.val.t # "array" THEN EvThrow("Error", "Macro called on non-list", l.env, l.h)
    ELSE LET lambda == expr.arguments[1]
             previousValue == MapGet(l.env, lambda.parameter)
             hasPrevious == lambda.parameter \in DOMAIN l.env
             r == macroLoop(expr.callee.property, l.val.elems, 1, lambda, l.env, l.h)
         IN  [r EXCEPT !.env = restoreParameter(r.env, lambda.parameter,
                                                hasPrevious, previousValue)]

evaluateCall(expr, env, h) ==
    IF expr.callee.kind = "Variable" /\ expr.callee.name = "has"
    THEN evaluateHas(expr, env, h)
    ELSE IF expr.callee.kind = "Member" /\ expr.callee.property \in {"exists", "all"}
    THEN evaluateMacro(expr, env, h)
    ELSE IF expr.callee.kind = "Variable"
    THEN LET args == evaluateElements(expr.arguments, 1, <<>>, env, h) IN
         IF args.err # NoErr THEN args
         ELSE evaluateGlobal(expr.callee.name, args.val, args.env, args.h)
    ELSE EvThrow("Error", "Unknown function call or macro", env, h)

evaluate(expr, env, h) ==
    CASE expr.kind = "Literal" -> EvOk(expr.value, env, h)
      [] expr.kind = "Variable" -> EvOk(MapGet(env, expr.name), env, h)
      [] expr.kind = "Binary" -> evaluateBinary(expr, env, h)
      [] expr.kind = "Unary" -> evaluateUnary(expr, env, h)
      [] expr.kind = "Member" -> evaluateMember(expr, env, h)
      [] expr.kind = "List" -> evaluateList(expr, env, h)
      [] expr.kind = "Call" -> evaluateCall(expr, env, h)
      [] expr.kind = "Object" -> evaluateObject(expr, env, h)
      [] OTHER -> EvThrow("Error", "Unknown expression kind", env, h)

\* ---------------------------------------------------- interpreter: statements
executeAssignment(stmt, env, h) ==
    LET value == evaluate(stmt.value, env, h) IN
    IF value.err # NoErr THEN value
    ELSE IF stmt.name \notin DOMAIN value.env
    THEN EvThrow("RuntimeError", "Undefined variable", value.env, value.h)
    ELSE EvOk(VNull, MapSet(value.env, stmt.name, value.val), value.h)

executeVarDecl(stmt, env, h) ==
    LET value == evaluate(stmt.initializer, env, h) IN
    IF value.err # NoErr THEN value
    ELSE EvOk(VNull, MapSet(value.env, stmt.name, value.val), value.h)

RECURSIVE execute(_, _, _)
RECURSIVE executeBlockFrom(_, _, _, _, _)

\* executeIf falling through from the then-branch into the else-branch.
executeIf_fallsThrough(stmt, env, h) ==
    LET condition == evaluate(stmt.condition, env, h) IN
    IF condition.err # NoErr THEN condition
    ELSE IF Truthy(condition.val)
    THEN LET t == execute(stmt.thenBranch, condition.env, condition.h) IN
         IF t.err # NoErr \/ ~stmt.hasElse THEN t
         ELSE execute(stmt.elseBranch, t.env, t.h)
    ELSE IF stmt.hasElse THEN execute(stmt.elseBranch, condition.env, condition.h)
    ELSE EvOk(VNull, condition.env, condition.h)

executeIf(stmt, env, h) ==
    LET condition == evaluate(stmt.condition, env, h) IN
    IF condition.err # NoErr THEN condition
    ELSE IF Truthy(condition.val) THEN execute(stmt.thenBranch, condition.env, condition.h)
    ELSE IF stmt.hasElse THEN execute(stmt.elseBranch, condition.env, condition.h)
    ELSE EvOk(VNull, condition.env, condition.h)

\* The loop of executeBlock from statements[i], lastValue the value so far.
executeBlockFrom(statements, i, lastValue, env, h) ==
    IF i > Len(statements) THEN EvOk(lastValue, env, h)
    ELSE LET s == execute(statements[i], env, h) IN
         IF s.err # NoErr THEN s
         ELSE executeBlockFrom(statements, i + 1, s.val, s.env, s.h)

executeBlock(stmt, env, h) == executeBlockFrom(stmt.statements, 1, VNull, env, h)

execute(stmt, env, h) ==
    CASE stmt.kind = "VarDecl" -> executeVarDecl(stmt, env, h)
      [] stmt.kind = "Assignment" -> executeAssignment(stmt, env, h)
      [] stmt.kind = "If" -> executeIf(stmt, env, h)
      [] stmt.kind = "Block" -> executeBlock(stmt, env, h)
      [] stmt.kind = "ExpressionStmt" -> evaluate(stmt.expression, env, h)
      [] OTHER -> EvThrow("Error", "Unknown statement kind", env, h)

\* ------------------------------------------------------------------- inputs
\* Literals as the parser builds them.
IntLit(k) == Literal(VInt(k), TInt)
StrLit(str) == Literal(VStr(str), TString)
BoolLit(bool) == Literal(VBool(bool), TBool)

\* The contract inputs of the model: an int, a bool and an object.
UserType == TObject([name |-> TString])
Inputs == [x |-> TInt, b |-> TBool, u |-> UserType]
Contract(hasOutputs, outputs) ==
    [name |-> "rule", inputs |-> Inputs, hasOutputs |-> hasOutputs, outputs |-> outputs]
NoOutputs == Contract(FALSE, TUnknown)

\* Does a context value conform to a declared input type?
RECURSIVE Conforms(_, _)
Conforms(v, type) ==
    CASE type = TInt -> v.t = "number" /\ IsInteger(v)
      [] type = TString -> v.t = "string"
      [] type = TBool -> v.t = "boolean"
      [] type = TDate -> v.t = "date"
      [] type = TUnknown -> TRUE
      [] type.kind = "list" ->
            v.t = "array" /\ \A k \in 1..Len(v.elems) : Conforms(v.elems[k], type.elementType)
      [] type.kind = "object" ->
            /\ v.t = "object"
            /\ DOMAIN type.properties \subseteq DOMAIN v.props
            /\ \A k \in DOMAIN type.properties : Conforms(v.props[k], type.properties[k])

ContextConforms(ctx, inputs) ==
    /\ DOMAIN inputs \subseteq DOMAIN ctx
    /\ \A k \in DOMAIN inputs : Conforms(ctx[k], inputs[k])

\* Contexts: every conforming choice of x and b with user Alice, and the
\* contexts whose user object lacks the declared property.
Alice == VObj(0, [name |-> VStr("Alice")])
Nobody == VObj(0, EmptyMap)
Contexts ==
    {[x |-> VInt(k), b |-> VBool(c), u |-> Alice] : k \in 0..MaxInt, c \in BOOLEAN}
    \cup {[x |-> VInt(1), b |-> VBool(c), u |-> Nobody] : c \in BOOLEAN}

\* All programs of at most MaxStmts top-level statements over a pool.
ProgramsOver(pool) == UNION {[1..len -> pool] : len \in 0..MaxStmts}

BadDate == Call(Variable("timestamp"), <<StrLit("yesterday")>>)
GoodDate == Call(Variable("timestamp"), <<StrLit("2023-01-01")>>)

\* Statements of the rules that are checked and then executed.
RunPool ==
    {ExpressionStmt(Binary(Variable("x"), "/", IntLit(k))) : k \in 0..MaxInt}
    \cup {ExpressionStmt(e) : e \in {
            Variable("y"),
            Binary(Variable("b"), "&&", Binary(Member(Variable("u"), "name"), "==", StrLit("Alice"))),
            Binary(Variable("b"), "||", Binary(BadDate, "<", GoodDate)),
            Call(Variable("has"), <<Member(Variable("u"), "name")>>),
            Call(Variable("has"), <<Member(BadDate, "name")>>),
            Call(Variable("has"), <<Member(Member(Variable("u"), "name"), "first")>>)}}
    \cup {VarDecl("y", TInt, Variable("x")),
          Assignment("y", Binary(Variable("y"), "+", IntLit(1))),
          IfStmt(Variable("b"), BlockStmt(<<VarDecl("y", TInt, IntLit(1))>>),
                 FALSE, BlockStmt(<<>>)),
          IfStmt(Variable("b"), BlockStmt(<<Assignment("y", IntLit(2))>>),
                 TRUE, BlockStmt(<<Assignment("y", IntLit(0))>>)),
          BlockStmt(<<VarDecl("z", TInt, IntLit(1)), ExpressionStmt(Variable("z"))>>)}

\* --------------------------------------------------------------------- state
VARIABLES
    tokens,       \* the Token[] handed to the Parser
    compileState, \* "new", "compiled" or "failed"
    compileErr,   \* the error parse() threw, NoErr if none
    history,      \* the outcomes of the earlier execute calls on ast
    ast,          \* the Statement[] produced by compile
    contract,     \* the ContractDef handed to check
    context,      \* the context record handed to execute
    checkState,   \* "new", "checking", "accepted" or "rejected"
    variables,    \* TypeChecker.variables
    i,            \* index of the statement check() is at (from 1)
    checkErr,     \* the error check() threw, NoErr if none
    runState,     \* "idle", "running", "returned" or "thrown"
    environment,  \* Interpreter.environment
    pc,           \* index of the statement interpret() is at (from 1)
    lastValue,    \* interpret()'s lastValue; its result once returned
    runErr,       \* the error interpret() threw, NoErr if none
    heap          \* the next unused allocation identity

vars == <<tokens, compileState, compileErr, history,
          ast, contract, context, checkState, variables, i, checkErr,
          runState, environment, pc, lastValue, runErr, heap>>
compileVars == <<tokens, compileState, compileErr>>
sessionVars == <<history>>
inputVars == <<ast, contract, context>>
checkVars == <<checkState, variables, i, checkErr>>
runVars == <<runState, environment, pc, lastValue, runErr, heap>>

\* A fresh TypeChecker and a fresh Interpreter, nothing called yet, for an
\* AST that compile has returned.
InitObjects ==
    /\ tokens = <<>> /\ compileState = "compiled" /\ compileErr = NoErr
    /\ history = <<>>
    /\ checkState = "new" /\ variables = EmptyMap /\ i = 0 /\ checkErr = NoErr
    /\ runState = "idle" /\ environment = EmptyMap /\ pc = 0
    /\ lastValue = VNull /\ runErr = NoErr /\ heap = 1

Init ==
    /\ ast \in ProgramsOver(RunPool)
    /\ contract = NoOutputs
    /\ context \in Contexts
    /\ InitObjects

\* ------------------------------------------------------------- check actions
\* check() is entered: this.variables = new Map(Object.entries(contract.inputs))
Check ==
    /\ compileState = "compiled"
    /\ checkState = "new"
    /\ checkState' = "checking"
    /\ variables' = contract.inputs
    /\ i' = 1
    /\ UNCHANGED <<checkErr, inputVars, compileVars, sessionVars, runVars>>

\* One iteration of the loop of check() on a statement of the given kind.
CheckStep(kind) ==
    /\ checkState = "checking"
    /\ i <= Len(ast)
    /\ ast[i].kind = kind
    /\ \E r \in {checkIteration(ast, i, contract, variables)} :
       /\ variables' = r.vars
       /\ checkErr' = r.err
       /\ checkState' = IF r.err # NoErr THEN "rejected" ELSE "checking"
       /\ i' = IF r.err # NoErr THEN i ELSE i + 1
    /\ UNCHANGED <<inputVars, compileVars, sessionVars, runVars>>

CheckVarDecl == CheckStep("VarDecl")
CheckAssignment == CheckStep("Assignment")
CheckIf == CheckStep("If")
CheckBlock == CheckStep("Block")
CheckExpressionStmt == CheckStep("ExpressionStmt")

\* The loop of check() is over: check() returns.
CheckReturn ==
    /\ checkState = "checking"
    /\ i > Len(ast)
    /\ checkState' = "accepted"
    /\ UNCHANGED <<variables, i, checkErr, inputVars, compileVars, sessionVars, runVars>>

CheckNext ==
    \/ Check
    \/ CheckVarDecl
    \/ CheckAssignment
    \/ CheckIf
    \/ CheckBlock
    \/ CheckExpressionStmt
    \/ CheckReturn

\* ----------------------------------------------------------- execute actions
\* interpret() is entered on a checked rule:
\* this.environment = new Map(Object.entries(context)); lastValue = null
Interpret ==
    /\ checkState = "accepted"
    /\ runState = "idle"
    /\ runState' = "running"
    /\ environment' = context
    /\ lastValue' = VNull
    /\ pc' = 1
    /\ UNCHANGED <<runErr, heap, inputVars, compileVars, sessionVars, checkVars>>

\* The host's record if this.environment were the record itself.
contextAfter_sharedStore(record, env) == env

\* The host's record once a statement has left this.environment as env:
\* the environment is a Map of its own, filled from Object.entries(context),
\* and set() and delete() on it do not reach the record.
contextAfter(record, env) == record

\* One iteration of the loop of interpret() on a statement of the given kind.
ExecuteStep(kind) ==
    /\ runState = "running"
    /\ pc <= Len(ast)
    /\ ast[pc].kind = kind
    /\ \E r \in {execute(ast[pc], environment, heap)} :
       /\ environment' = r.env
       /\ context' = contextAfter(context, r.env)
       /\ heap' = r.h
       /\ runErr' = r.err
       /\ runState' = IF r.err # NoErr THEN "thrown" ELSE "running"
       /\ lastValue' = IF r.err # NoErr THEN lastValue ELSE r.val
       /\ pc' = IF r.err # NoErr THEN pc ELSE pc + 1
    /\ UNCHANGED <<ast, contract, compileVars, sessionVars, checkVars>>

ExecuteVarDecl == ExecuteStep("VarDecl")
ExecuteAssignment == ExecuteStep("Assignment")
ExecuteIf == ExecuteStep("If")
ExecuteBlock == ExecuteStep("Block")
ExecuteExpressionStmt == ExecuteStep("ExpressionStmt")

\* The loop of interpret() is over: return lastValue.
InterpretReturn ==
    /\ runState = "running"
    /\ pc > Len(ast)
    /\ runState' = "returned"
    /\ UNCHANGED <<environment, pc, lastValue, runErr, heap, inputVars, compileVars, sessionVars, checkVars>>

RunNext ==
    \/ Interpret
    \/ ExecuteVarDecl
    \/ ExecuteAssignment
    \/ ExecuteIf
    \/ ExecuteBlock
    \/ ExecuteExpressionStmt
    \/ InterpretReturn

Next == CheckNext \/ RunNext

Spec == Init /\ [][Next]_vars

\* ------------------------------------------------- the checker on its own
\* Output contracts: none, primitives and object shapes.
Contracts ==
    {NoOutputs}
    \cup {Contract(TRUE, t) : t \in {TInt, TString,
                                     TObject(EmptyMap),
                                     TObject([a |-> TInt]),
                                     TObject([a |-> TInt, c |-> TBool])}}

ObjectA(value) == ObjectExpr(<<Prop("a", value)>>)
ExistsOver(list, body) ==
    Call(Member(list, "exists"), <<Lambda("n", body)>>)

\* Statements of the rules that are only checked: declarations, assignments
\* and references of the names x, b, u (inputs) and y (not an input).
CheckPool ==
    {ExpressionStmt(e) : e \in {
        Variable("x"), Variable("y"), StrLit("a"),
        ObjectExpr(<<>>), ObjectA(IntLit(1)), ObjectA(StrLit("a")),
        ObjectExpr(<<Prop("a", IntLit(1)), Prop("c", BoolLit(TRUE))>>),
        Binary(Variable("x"), "+", Variable("y")),
        Unary("-", Variable("y")),
        ListExpr(<<Variable("x"), Variable("y")>>),
        ObjectA(Variable("y")),
        Member(Variable("y"), "a"),
        Call(Variable("length"), <<Variable("y")>>),
        Call(Variable("has"), <<Member(Variable("y"), "a")>>),
        ExistsOver(ListExpr(<<Variable("x")>>), Binary(Variable("n"), ">", Variable("y"))),
        Binary(ExistsOver(ListExpr(<<Variable("x")>>), Binary(Variable("n"), ">", IntLit(0))),
               "&&", Binary(Variable("n"), ">", IntLit(0))),
        Binary(StrLit("a"), "in", Variable("y"))}}
    \cup {VarDecl("y", TInt, IntLit(1)),
          VarDecl("x", TInt, IntLit(1)),
          VarDecl("y", TString, IntLit(1)),
          VarDecl("y", TInt, Variable("y")),
          VarDecl("x", TInt, Binary(IntLit(1), "+", StrLit("a"))),
          VarDecl("y", TList(TInt), ListExpr(<<>>)),
          VarDecl("y", TObject(EmptyMap), ObjectA(IntLit(1)))}
    \cup {Assignment("y", IntLit(MaxInt)),
          Assignment("y", StrLit("a")),
          Assignment("x", IntLit(MaxInt)),
          Assignment("u", ObjectExpr(<<>>)),
          Assignment("y", ListExpr(<<StrLit("a")>>))}
    \cup {IfStmt(Variable("b"), BlockStmt(<<VarDecl("y", TInt, IntLit(1))>>),
                 TRUE, BlockStmt(<<VarDecl("y", TInt, IntLit(1))>>)),
          IfStmt(Variable("b"), BlockStmt(<<VarDecl("y", TInt, IntLit(1))>>),
                 FALSE, BlockStmt(<<>>)),
          IfStmt(Variable("x"), BlockStmt(<<>>), FALSE, BlockStmt(<<>>)),
          BlockStmt(<<VarDecl("y", TInt, IntLit(1)), ExpressionStmt(Variable("y"))>>)}

InitCheck ==
    /\ ast \in ProgramsOver(CheckPool)
    /\ contract \in Contracts
    /\ context = [x |-> VInt(0), b |-> VBool(TRUE), u |-> Alice]
    /\ InitObjects

SpecCheck == InitCheck /\ [][CheckNext]_vars

\* -------------------------------------------------------------------- claims
\* The last top-level statement, when the program ends with an expression.
EndsWithExpression == Len(ast) > 0 /\ ast[Len(ast)].kind = "ExpressionStmt"

\* The type the checker infers for the final expression, in the checker's
\* environment at the end of check().
InferredResultType == checkExpression(ast[Len(ast)].expression, variables).type

\* C1 (type soundness): once a rule accepted by check has been executed to
\* its return on a context conforming to contract.inputs, the value returned
\* has the type the checker inferred for the final expression.
C1_TypeSoundness ==
    (/\ runState = "returned"
     /\ EndsWithExpression
     /\ ContextConforms(context, contract.inputs))
    => Conforms(lastValue, InferredResultType)

\* Is stmt the expression statement  a && b  or  a || b  whose left operand
\* evaluates, in env, to the value that fixes the result?
LeftDecides(stmt, env) ==
    /\ stmt.kind = "ExpressionStmt"
    /\ stmt.expression.kind = "Binary"
    /\ stmt.expression.operator \in {"&&", "||"}
    /\ LET l == evaluate(stmt.expression.left, env, 1) IN
       /\ l.err = NoErr
       /\ l.val = VBool(stmt.expression.operator = "||")

\* C2 (short-circuit): executing  a && b  with a false, or  a || b  with a
\* true, never throws: the right operand is not evaluated.
C2_ShortCircuit ==
    ~(runState = "thrown" /\ LeftDecides(ast[pc], environment))

\* Is stmt the expression statement has(e)?
IsHasStmt(stmt) ==
    /\ stmt.kind = "ExpressionStmt"
    /\ stmt.expression.kind = "Call"
    /\ stmt.expression.callee = Variable("has")
    /\ Len(stmt.expression.arguments) = 1

\* The errors has() is specified to convert to false.
AbsenceMessages == {"Undefined variable", "Property does not exist"}

\* C3 (has converts only absence): when the statement has(e) has completed
\* with a value, evaluating e either succeeds or fails with 'undefined
\* variable' or 'missing property'; every other error of e has propagated.
C3_HasPropagatesOtherErrors ==
    (runState = "running" /\ pc > 1 /\ IsHasStmt(ast[pc - 1]))
    => LET e == evaluate(ast[pc - 1].expression.arguments[1], environment, heap) IN
       e.err = NoErr \/ e.err.msg \in AbsenceMessages

\* Is stmt the expression statement  a / b  whose operands evaluate, in env,
\* to an integer and to zero?
DividesByZero(stmt, env) ==
    /\ stmt.kind = "ExpressionStmt"
    /\ stmt.expression.kind = "Binary"
    /\ stmt.expression.operator = "/"
    /\ LET l == evaluate(stmt.expression.left, env, 1)
           r == evaluate(stmt.expression.right, env, 1)
       IN  /\ l.err = NoErr /\ l.val.t = "number" /\ IsInteger(l.val)
           /\ r.err = NoErr /\ r.val.t = "number" /\ IsZero(r.val)

\* C4 (division by zero): the statement  a / b  with Int operands and b = 0
\* is accepted by check but never completes with a value.
C4_DivisionByZeroRaises ==
    ~(runState = "running" /\ pc > 1 /\ DividesByZero(ast[pc - 1], environment))

\* The relation ~ of the checker's rules: structural equality with Unknown
\* as wildcard, a target object without declared properties accepting any
\* object.
RECURSIVE Unifies(_, _)
Unifies(actual, target) ==
    IF actual = TUnknown \/ target = TUnknown THEN TRUE
    ELSE IF IsPrimitiveType(actual) \/ IsPrimitiveType(target) THEN actual = target
    ELSE IF actual.kind = "list" /\ target.kind = "list"
    THEN Unifies(actual.elementType, target.elementType)
    ELSE IF actual.kind = "object" /\ target.kind = "object"
    THEN \/ DOMAIN target.properties = {}
         \/ /\ DOMAIN actual.properties = DOMAIN target.properties
            /\ \A k \in DOMAIN target.properties :
                  Unifies(actual.properties[k], target.properties[k])
    ELSE FALSE

\* C5 (outputs need a final expression): a contract with outputs never lets
\* check accept a program that does not end with an ExprStmt, the empty
\* program included.
C5_OutputsNeedFinalExpression ==
    (contract.hasOutputs /\ ~EndsWithExpression) => checkState # "accepted"

\* check() has come to the output validation of a final expression whose
\* type it could infer.
OutputValidated ==
    /\ contract.hasOutputs
    /\ EndsWithExpression
    /\ \/ checkState = "accepted"
       \/ checkState = "rejected" /\ i = Len(ast)
    /\ checkExpression(ast[Len(ast)].expression, variables).err = NoErr

\* C6 (output type): with outputs T_out and a final expression of type
\* T_actual, check succeeds exactly when T_actual ~ T_out and raises 'Return
\* type mismatch' in every other case.
C6_OutputTypeValidated ==
    OutputValidated =>
        IF Unifies(InferredResultType, contract.outputs)
        THEN checkState = "accepted"
        ELSE checkState = "rejected" /\ checkErr = Err("TypeError", "Return type mismatch")

\* Are all Variable references of expr names of the set bound?  A lambda
\* parameter is bound in the lambda's body only; the callee of a call to a
\* global function or to has is a function name, not a reference.
RECURSIVE RefsBound(_, _)
RefsBound(expr, bound) ==
    CASE expr.kind = "Variable" -> expr.name \in bound
      [] expr.kind = "Literal" -> TRUE
      [] expr.kind = "Binary" -> RefsBound(expr.left, bound) /\ RefsBound(expr.right, bound)
      [] expr.kind = "Unary" -> RefsBound(expr.right, bound)
      [] expr.kind = "Member" -> RefsBound(expr.object, bound)
      [] expr.kind = "List" ->
            \A k \in 1..Len(expr.elements) : RefsBound(expr.elements[k], bound)
      [] expr.kind = "Object" ->
            \A k \in 1..Len(expr.properties) : RefsBound(expr.properties[k].value, bound)
      [] expr.kind = "Lambda" -> RefsBound(expr.body, bound \cup {expr.parameter})
      [] expr.kind = "Call" ->
            /\ expr.callee.kind = "Member" => RefsBound(expr.callee.object, bound)
            /\ \A k \in 1..Len(expr.arguments) : RefsBound(expr.arguments[k], bound)

\* The names bound after stmt, in the flat environment (no block scope).
RECURSIVE ScopeAfter(_, _)
RECURSIVE ScopeAfterAll(_, _, _)
ScopeAfter(stmt, bound) ==
    CASE stmt.kind = "VarDecl" -> bound \cup {stmt.name}
      [] stmt.kind = "If" ->
            LET t == ScopeAfter(stmt.thenBranch, bound) IN
            IF stmt.hasElse THEN ScopeAfter(stmt.elseBranch, t) ELSE t
      [] stmt.kind = "Block" -> ScopeAfterAll(stmt.statements, 1, bound)
      [] OTHER -> bound
ScopeAfterAll(statements, k, bound) ==
    IF k > Len(statements) THEN bound
    ELSE ScopeAfterAll(statements, k + 1, ScopeAfter(statements[k], bound))

\* Is every Variable reference of stmt bound at its point of the pass?
RECURSIVE StmtRefsBound(_, _)
RECURSIVE AllRefsBound(_, _, _)
StmtRefsBound(stmt, bound) ==
    CASE stmt.kind = "VarDecl" -> RefsBound(stmt.initializer, bound)
      [] stmt.kind = "Assignment" -> RefsBound(stmt.value, bound)
      [] stmt.kind = "ExpressionStmt" -> RefsBound(stmt.expression, bound)
      [] stmt.kind = "If" ->
            /\ RefsBound(stmt.condition, bound)
            /\ StmtRefsBound(stmt.thenBranch, bound)
            /\ stmt.hasElse =>
                  StmtRefsBound(stmt.elseBranch, ScopeAfter(stmt.thenBranch, bound))
      [] stmt.kind = "Block" -> AllRefsBound(stmt.statements, 1, bound)
AllRefsBound(statements, k, bound) ==
    IF k > Len(statements) THEN TRUE
    ELSE /\ StmtRefsBound(statements[k], bound)
         /\ AllRefsBound(statements, k + 1, ScopeAfter(statements[k], bound))

\* The expression leaf the pass over expr reaches first.
RECURSIVE FirstLeaf(_)
FirstLeaf(expr) ==
    CASE expr.kind = "Binary" -> FirstLeaf(expr.left)
      [] expr.kind = "Unary" -> FirstLeaf(expr.right)
      [] expr.kind = "Member" -> FirstLeaf(expr.object)
      [] expr.kind = "List" /\ Len(expr.elements) > 0 -> FirstLeaf(expr.elements[1])
      [] expr.kind = "Object" /\ Len(expr.properties) > 0 ->
            FirstLeaf(expr.properties[1].value)
      [] expr.kind = "Call" /\ expr.callee.kind = "Member" -> FirstLeaf(expr.callee.object)
      [] expr.kind = "Call" /\ Len(expr.arguments) > 0 -> FirstLeaf(expr.arguments[1])
      [] OTHER -> expr

\* Does checking stmt begin by reading a Variable that is not bound?
ReadsUnboundFirst(stmt, bound) ==
    LET e == CASE stmt.kind = "VarDecl" -> stmt.initializer
               [] stmt.kind = "ExpressionStmt" -> stmt.expression
               [] stmt.kind = "If" -> stmt.condition
               [] OTHER -> IntLit(0)
        leaf == FirstLeaf(e)
    IN  leaf.kind = "Variable" /\ leaf.name \notin bound

AtStatement == checkState = "checking" /\ i <= Len(ast)

\* C7 (undefined variable): check accepts no program with a Variable
\* reference that is unbound at its point of the left-to-right pass, and a
\* statement whose check begins by reading an unbound name (a VarDecl's own
\* name in its initializer included) is rejected with the Type error
\* 'Undefined variable'.
C7_UndefinedVariableRejected ==
    /\ [](checkState = "accepted" => AllRefsBound(ast, 1, DOMAIN contract.inputs))
    /\ [][(AtStatement /\ ReadsUnboundFirst(ast[i], DOMAIN variables))
          => (checkState' = "rejected"
              /\ checkErr' = Err("TypeError", "Undefined variable"))]_vars

\* C7 witness: a declaration that reads its own name was rejected.
C7_Witness ==
    /\ checkState = "rejected"
    /\ checkErr = Err("TypeError", "Undefined variable")
    /\ ast[i].kind = "VarDecl"
    /\ ast[i].initializer = Variable(ast[i].name)

\* The names declared by stmt, nested declarations included, in program order.
RECURSIVE DeclaredNames(_)
RECURSIVE DeclaredNamesAll(_, _)
DeclaredNames(stmt) ==
    CASE stmt.kind = "VarDecl" -> <<stmt.name>>
      [] stmt.kind = "If" ->
            DeclaredNames(stmt.thenBranch)
            \o (IF stmt.hasElse THEN DeclaredNames(stmt.elseBranch) ELSE <<>>)
      [] stmt.kind = "Block" -> DeclaredNamesAll(stmt.statements, 1)
      [] OTHER -> <<>>
DeclaredNamesAll(statements, k) ==
    IF k > Len(statements) THEN <<>>
    ELSE DeclaredNames(statements[k]) \o DeclaredNamesAll(statements, k + 1)

\* Does the sequence of declared names repeat a name or declare one of bound?
Redeclares(names, bound) ==
    \/ \E k \in 1..Len(names) : names[k] \in bound
    \/ \E k, l \in 1..Len(names) : k # l /\ names[k] = names[l]

\* Is stmt a declaration of a bound name whose initializer is well typed?
RedeclaresDirectly(stmt, vs) ==
    /\ stmt.kind = "VarDecl"
    /\ stmt.name \in DOMAIN vs
    /\ LET init == checkExpression(stmt.initializer, vs) IN
       init.err = NoErr /\ Unifies(init.type, stmt.typeAnnotation)

\* Is stmt an If with a Bool condition whose two branches are blocks that
\* each start by declaring, with a well-typed initializer, the same name?
RedeclaresInElse(stmt, vs) ==
    /\ stmt.kind = "If" /\ stmt.hasElse
    /\ checkExpression(stmt.condition, vs).type = TBool
    /\ checkExpression(stmt.condition, vs).err = NoErr
    /\ stmt.thenBranch.kind = "Block" /\ Len(stmt.thenBranch.statements) = 1
    /\ stmt.elseBranch.kind = "Block" /\ Len(stmt.elseBranch.statements) > 0
    /\ LET d1 == stmt.thenBranch.statements[1]
           d2 == stmt.elseBranch.statements[1]
       IN  /\ d1.kind = "VarDecl" /\ d2.kind = "VarDecl" /\ d1.name = d2.name
           /\ checkVarDecl(d1, vs).err = NoErr
           /\ checkExpression(d2.initializer, vs).err = NoErr
           /\ Unifies(checkExpression(d2.initializer, vs).type, d2.typeAnnotation)

RECURSIVE BoundToAnnotation(_, _)
RECURSIVE AllBoundToAnnotation(_, _, _)
BoundToAnnotation(stmt, vs) ==
    CASE stmt.kind = "VarDecl" ->
            stmt.name \in DOMAIN vs /\ vs[stmt.name] = stmt.typeAnnotation
      [] stmt.kind = "If" ->
            /\ BoundToAnnotation(stmt.thenBranch, vs)
            /\ stmt.hasElse => BoundToAnnotation(stmt.elseBranch, vs)
      [] stmt.kind = "Block" -> AllBoundToAnnotation(stmt.statements, 1, vs)
      [] OTHER -> TRUE
AllBoundToAnnotation(statements, k, vs) ==
    IF k > Len(statements) THEN TRUE
    ELSE BoundToAnnotation(statements[k], vs) /\ AllBoundToAnnotation(statements, k + 1, vs)

\* Is stmt a declaration whose initializer has a type that is not ~ its
\* annotation?
MismatchedDecl(stmt, vs) ==
    /\ stmt.kind = "VarDecl"
    /\ LET init == checkExpression(stmt.initializer, vs) IN
       init.err = NoErr /\ ~Unifies(init.type, stmt.typeAnnotation)

\* C9 (declaration type): a VarDecl whose initializer's type is not ~ its
\* annotation is rejected with the Type error 'Type mismatch'; an accepted
\* declaration binds the name to the annotation, so that in an accepted
\* program every declared name has its annotation's type.
C9_DeclarationType ==
    /\ [][(AtStatement /\ MismatchedDecl(ast[i], variables))
          => (checkState' = "rejected" /\ checkErr' = Err("TypeError", "Type mismatch"))]_vars
    /\ [][(AtStatement /\ ast[i].kind = "VarDecl" /\ checkState' = "checking")
          => variables' = MapSet(variables, ast[i].name, ast[i].typeAnnotation)]_vars
    /\ [](checkState = "accepted" => AllBoundToAnnotation(ast, 1, variables))

\* C9 witness: y was declared int[] with the initializer [], of type
\* list(unknown), and is bound to int[].
C9_Witness ==
    /\ checkState = "accepted"
    /\ Len(ast) >= 1
    /\ "y" \in DOMAIN variables
    /\ ast[1] = VarDecl("y", TList(TInt), ListExpr(<<>>))
    /\ variables["y"] = TList(TInt)
    /\ checkExpression(ast[1].initializer, contract.inputs).type = TList(TUnknown)

\* C10 (assignment): once an Assignment has been accepted, its name is bound
\* to a type T and the value's inferred type is ~ T.
C10_AssignmentTyped ==
    (checkState \in {"checking", "accepted"} /\ i > 1 /\ ast[i - 1].kind = "Assignment")
    => /\ ast[i - 1].name \in DOMAIN variables
       /\ LET value == checkExpression(ast[i - 1].value, variables) IN
          value.err = NoErr /\ Unifies(value.type, variables[ast[i - 1].name])

\* ------------------------------------------- the checker on member access
\* A contract whose input user is an object nested three levels deep.
MaxDepth == 2
AddressType == TObject([zip |-> TString])
CompanyType == TObject([address |-> AddressType])
MemberUserType == TObject([name |-> TString, company |-> CompanyType])
MemberInputs == [user |-> MemberUserType, x |-> TInt]
MemberContracts ==
    {[name |-> "rule", inputs |-> MemberInputs, hasOutputs |-> o[1], outputs |-> o[2]] :
        o \in {<<FALSE, TUnknown>>, <<TRUE, TString>>, <<TRUE, TInt>>}}

\* object.p1.p2...pk as the parser's postfix loop builds it.
RECURSIVE MemberChain(_, _)
MemberChain(object, props) ==
    IF props = <<>> THEN object
    ELSE MemberChain(Member(object, Head(props)), Tail(props))

PropNames == {"name", "company", "address", "zip"}
MemberPaths ==
    UNION {[1..len -> PropNames] : len \in 1..MaxDepth}
    \cup {<<"company", "address", p>> : p \in PropNames}

UserZip == MemberChain(Variable("user"), <<"company", "address", "zip">>)

\* Statements that read properties of user, of the int x, of y and of an
\* object literal.
MemberPool ==
    {ExpressionStmt(MemberChain(Variable("user"), p)) : p \in MemberPaths}
    \cup {ExpressionStmt(Member(Variable("x"), "name")),
          ExpressionStmt(MemberChain(Variable("y"), <<"address", "zip">>)),
          VarDecl("y", TString, UserZip),
          VarDecl("y", TInt, UserZip),
          VarDecl("y", CompanyType, Member(Variable("user"), "company")),
          VarDecl("y", TInt, Member(ObjectA(IntLit(1)), "a")),
          VarDecl("y", TInt, Member(ObjectA(IntLit(1)), "c")),
          Assignment("y", Member(Variable("user"), "name")),
          IfStmt(Binary(Member(Variable("user"), "name"), "==", StrLit("a")),
                 BlockStmt(<<ExpressionStmt(Member(Variable("user"), "zip"))>>),
                 FALSE, BlockStmt(<<>>)),
          BlockStmt(<<VarDecl("z", AddressType,
                              MemberChain(Variable("user"), <<"company", "address">>)),
                      ExpressionStmt(Member(Variable("z"), "zip"))>>)}

InitMember ==
    /\ ast \in ProgramsOver(MemberPool)
    /\ contract \in MemberContracts
    /\ context = [x |-> VInt(0)]
    /\ InitObjects

SpecMember == InitMember /\ [][CheckNext]_vars

\* The expression a statement checks first, when it is a simple statement.
TopExpr(stmt) ==
    CASE stmt.kind = "ExpressionStmt" -> stmt.expression
      [] stmt.kind = "VarDecl" -> stmt.initializer
      [] stmt.kind = "Assignment" -> stmt.value
      [] OTHER -> IntLit(0)

\* The expression a chain of Member accesses starts from, and the property
\* names of the chain in the order they are applied.
RECURSIVE ChainRoot(_)
ChainRoot(expr) == IF expr.kind = "Member" THEN ChainRoot(expr.object) ELSE expr
RECURSIVE ChainProps(_)
ChainProps(expr) ==
    IF expr.kind = "Member" THEN Append(ChainProps(expr.object), expr.property)
    ELSE <<>>

\* The rule for Member, applied along props from a type: the declared type
\* at the end of the path, or the error of the first step that has none.
RECURSIVE Descend(_, _)
Descend(type, props) ==
    IF props = <<>> THEN [msg |-> "", type |-> type]
    ELSE IF IsPrimitiveType(type) \/ type.kind # "object"
    THEN [msg |-> "Only objects have properties", type |-> TUnknown]
    ELSE IF Head(props) \notin DOMAIN type.properties
    THEN [msg |-> "Property does not exist", type |-> TUnknown]
    ELSE Descend(type.properties[Head(props)], Tail(props))

\* check() is at a simple statement whose expression is a Member chain
\* from a root that has a type.
AtMemberChain ==
    /\ AtStatement
    /\ TopExpr(ast[i]).kind = "Member"
    /\ checkExpression(ChainRoot(TopExpr(ast[i])), variables).err = NoErr

DeclaredMember ==
    Descend(checkExpression(ChainRoot(TopExpr(ast[i])), variables).type,
            ChainProps(TopExpr(ast[i])))

MaxRuns == 3

LateDate == Call(Variable("timestamp"), <<StrLit("2023-01-02")>>)
HasName == Call(Variable("has"), <<Member(Variable("u"), "name")>>)

\* let d:int = 0; if (b) { d = k; } x - d
PricingRule(k) ==
    <<VarDecl("d", TInt, IntLit(0)),
      IfStmt(Variable("b"), BlockStmt(<<Assignment("d", IntLit(k))>>), FALSE, BlockStmt(<<>>)),
      ExpressionStmt(Binary(Variable("x"), "-", Variable("d")))>>

\* if (b) { thenStmt } else { elseStmt }
Branching(thenStmt, elseStmt) ==
    IfStmt(Variable("b"), BlockStmt(<<thenStmt>>), TRUE, BlockStmt(<<elseStmt>>))

\* Rules with an If.
IfRules ==
    {PricingRule(k) : k \in 1..MaxInt}
    \cup {<<VarDecl("d", TInt, IntLit(0)),
            Branching(Assignment("d", IntLit(1)), VarDecl("e", TInt, IntLit(2))),
            ExpressionStmt(Variable("d"))>>,
          <<Branching(ExpressionStmt(BadDate), ExpressionStmt(Variable("x")))>>,
          <<Branching(ExpressionStmt(Variable("x")), ExpressionStmt(BadDate))>>,
          <<IfStmt(Variable("b"), BlockStmt(<<VarDecl("y", TInt, IntLit(1))>>),
                   FALSE, BlockStmt(<<>>)),
            ExpressionStmt(Variable("y"))>>,
          <<IfStmt(HasName, BlockStmt(<<ExpressionStmt(Member(Variable("u"), "name"))>>),
                   TRUE, BlockStmt(<<ExpressionStmt(StrLit("nobody"))>>))>>}

\* Rules that call has, return a date, or are a block.
HasRules ==
    {<<ExpressionStmt(HasName)>>,
     <<ExpressionStmt(Call(Variable("has"), <<Member(ObjectA(Variable("x")), "a")>>))>>,
     <<VarDecl("y", TBool, HasName), ExpressionStmt(Unary("!", Variable("y")))>>,
     <<ExpressionStmt(Call(Variable("has"), <<Member(ObjectA(
           Call(Member(ListExpr(<<Variable("u")>>), "exists"),
                <<Lambda("n", Binary(Member(Variable("n"), "name"), "==", StrLit("Alice")))>>)),
           "a")>>))>>,
     <<ExpressionStmt(GoodDate)>>,
     <<ExpressionStmt(Binary(GoodDate, "<", LateDate))>>,
     <<BlockStmt(<<VarDecl("z", TInt, Variable("x")), ExpressionStmt(Variable("z"))>>)>>}

\* The structural content of a value: the value without the identities of
\* the arrays, objects and dates in it.
RECURSIVE Content(_)
Content(v) ==
    CASE v.t = "array" ->
            [t |-> "array", elems |-> [k \in 1..Len(v.elems) |-> Content(v.elems[k])]]
      [] v.t = "object" ->
            [t |-> "object", props |-> [k \in DOMAIN v.props |-> Content(v.props[k])]]
      [] v.t = "date" -> [t |-> "date", ms |-> v.ms]
      [] OTHER -> v

\* What the execute call that has finished gave: its error, or the content
\* of the value it returned.
Finished == runState \in {"returned", "thrown"}
Outcome ==
    [err |-> runErr,
     val |-> IF runState = "returned" THEN Content(lastValue) ELSE VUndefined]

\* ExecuteAgain on an Interpreter that keeps the bindings of the earlier
\* call and adds those of d to them.
ExecuteAgain_keepsBindings ==
    /\ Finished
    /\ Len(history) + 1 < MaxRuns
    /\ history' = Append(history, [context |-> context, outcome |-> Outcome])
    /\ \E d \in Contexts :
          /\ context' = d
          /\ environment' = [n \in DOMAIN environment \cup DOMAIN d |->
                                IF n \in DOMAIN d THEN d[n] ELSE environment[n]]
    /\ runState' = "running"
    /\ lastValue' = VNull
    /\ pc' = 1
    /\ runErr' = NoErr
    /\ UNCHANGED <<heap, ast, contract, compileVars, checkVars>>

\* Axiom.execute(ast, d) is called once more, after an earlier call has
\* returned or thrown: a new Interpreter, whose interpret() starts from
\* this.environment = new Map(Object.entries(d)) and lastValue = null.
ExecuteAgain ==
    /\ Finished
    /\ Len(history) + 1 < MaxRuns
    /\ history' = Append(history, [context |-> context, outcome |-> Outcome])
    /\ \E d \in Contexts :
          /\ context' = d
          /\ environment' = d
    /\ runState' = "running"
    /\ lastValue' = VNull
    /\ pc' = 1
    /\ runErr' = NoErr
    /\ UNCHANGED <<heap, ast, contract, compileVars, checkVars>>

ReuseRules == IfRules \cup HasRules

InitReuse ==
    /\ ast \in ReuseRules
    /\ contract = NoOutputs
    /\ context \in Contexts
    /\ InitObjects

NextReuse == Next \/ ExecuteAgain

SpecReuse == InitReuse /\ [][NextReuse]_vars

EarlierApart(k) ==
    /\ k \in 1..Len(history)
    /\ history[k].context = context
    /\ \E j \in (k + 1)..Len(history) : history[j].context # context

\* C13 (independent executions): an execute call gives the outcome it gave
\* on that context before other contexts were executed, also when one of
\* those executions threw; and every execute call starts from exactly the
\* bindings of its context.
C13_IndependentExecutions ==
    /\ [](Finished => \A k \in 1..Len(history) :
                         EarlierApart(k) => history[k].outcome = Outcome)
    /\ [][(runState' = "running" /\ pc' = 1 /\ runState # "running")
          => environment' = context']_vars

\* C13 witness: the rule  if (b) { timestamp("yesterday"); } else { x; }
\* returned on a context, threw on another one, and returned again on the
\* first.
C13_Witness ==
    /\ runState = "returned"
    /\ ast = <<Branching(ExpressionStmt(BadDate), ExpressionStmt(Variable("x")))>>
    /\ Len(history) = 2
    /\ history[1].context = context
    /\ history[2].context # context
    /\ history[2].outcome.err # NoErr

\* ---------------------------------------------------- rules executed once
MaxList == 2

\* xs.method(parameter, body)
MacroCall(list, method, parameter, body) ==
    Call(Member(list, method), <<Lambda(parameter, body)>>)

\* List literals of date strings; the last of the three is not a date.
MacroElems == {"2023-01-01", "2023-01-02", "yesterday"}
StrLists == UNION {[1..n -> MacroElems] : n \in 0..MaxList}
StrListExpr(strs) == ListExpr([k \in 1..Len(strs) |-> StrLit(strs[k])])

\* timestamp(s) < timestamp("2023-01-02")
IsEarly == Binary(Call(Variable("timestamp"), <<Variable("s")>>), "<", LateDate)

\* Rules that end with a list macro: over every list of date strings, and
\* over [x] with a body that reads a flag declared in an if-branch.
MacroRules ==
    {<<ExpressionStmt(MacroCall(StrListExpr(l), m, "s", IsEarly))>> :
        l \in StrLists, m \in {"exists", "all"}}
    \cup {<<IfStmt(Variable("b"), BlockStmt(<<VarDecl("f", TBool, BoolLit(TRUE))>>),
                   FALSE, BlockStmt(<<>>)),
            ExpressionStmt(MacroCall(ListExpr(<<Variable("x")>>), m, "n", Variable("f")))>> :
        m \in {"exists", "all"}}

\* Rules that compare with ==, != and in.
EqOperands ==
    {ListExpr(<<IntLit(1)>>), ListExpr(<<Variable("x")>>), ListExpr(<<>>),
     Variable("u"), ObjectExpr(<<Prop("name", StrLit("Alice"))>>), Variable("x")}
EqRules ==
    {<<ExpressionStmt(Binary(l, "==", r))>> : l \in EqOperands, r \in EqOperands}
    \cup {<<ExpressionStmt(Binary(l, "!=", l))>> : l \in EqOperands}
    \cup {<<ExpressionStmt(Binary(e[1], "in", ListExpr(e[2])))>> :
            e \in {<<Variable("x"), <<IntLit(0), IntLit(1)>> >>,
                   <<Variable("u"), <<Variable("u")>> >>,
                   <<ListExpr(<<IntLit(1)>>), <<ListExpr(<<IntLit(1)>>)>> >>,
                   <<ListExpr(<<Variable("x")>>), <<ListExpr(<<IntLit(0)>>), ListExpr(<<IntLit(1)>>)>> >>,
                   <<StrLit("a"), <<StrLit("b"), StrLit("a")>> >>}}

Rules == IfRules \cup HasRules \cup MacroRules \cup EqRules

InitRules ==
    /\ ast \in Rules
    /\ contract = NoOutputs
    /\ context \in Contexts
    /\ InitObjects

SpecRules == InitRules /\ [][Next]_vars

\* The loop of interpret() as runState and pc show it: a statement is
\* executed and the loop moves on, or the statement throws, or the loop is
\* over and interpret() returns. One of ExecuteStep and InterpretReturn is
\* enabled whenever runState = "running", and each is such a step.
InterpretLoop ==
    /\ runState = "running"
    /\ \/ pc <= Len(ast) /\ pc' = pc + 1 /\ runState' = "running"
       \/ pc <= Len(ast) /\ pc' = pc /\ runState' = "thrown"
       \/ pc > Len(ast) /\ pc' = pc /\ runState' = "returned"

\* interpret() runs on once entered: nothing but its own loop decides
\* whether its next statement is executed.
FairRules == SpecRules /\ WF_<<runState, pc>>(InterpretLoop)

\* interpret() is at an expression statement that is a list macro with the
\* body IsEarly over a list literal.
AtDateMacro ==
    /\ runState = "running" /\ pc <= Len(ast)
    /\ ast[pc].kind = "ExpressionStmt"
    /\ ast[pc].expression.kind = "Call"
    /\ ast[pc].expression.callee.kind = "Member"
    /\ ast[pc].expression.callee.property \in {"exists", "all"}
    /\ ast[pc].expression.callee.object.kind = "List"
    /\ ast[pc].expression.arguments[1].body = IsEarly

\* C14 (termination): an execution that has started comes to its end, with a
\* value or an error; every step of a running interpret() executes one
\* statement and moves on to the next, throws, or returns; and a list macro evaluates its body at most once
\* for each element (the body IsEarly creates two dates each time it is
\* evaluated, the list literal is one more allocation).
C14_Termination ==
    /\ (runState = "running") ~> Finished
    /\ [][runState = "running" => InterpretLoop]_<<runState, pc>>
    /\ [][AtDateMacro
          => heap' - heap <= 1 + 2 * Len(ast[pc].expression.callee.object.elements)]_vars

\* C14 witness: all() has gone through a whole list of two elements and
\* the execution has returned.
C14_Witness ==
    /\ runState = "returned"
    /\ ast = <<ExpressionStmt(MacroCall(StrListExpr(<<"2023-01-01", "2023-01-01">>),
                                        "all", "s", IsEarly))>>
    /\ lastValue = VBool(TRUE)
    /\ heap = 6

\* interpret() is at an expression statement that is a call of has.
AtHas ==
    /\ runState = "running" /\ pc <= Len(ast)
    /\ IsHasStmt(ast[pc])

\* Does the object bound to u in the context have the property name?
UserHasName == "name" \in DOMAIN context.u.props

\* C15 (has): has(e) is true when e evaluates to a value and false when e
\* fails on a missing property, and leaves the environment as it was in both
\* cases; has(u.name) is true for a user with a name and false for {}.
C15_HasTestsPresence ==
    /\ [][AtHas =>
            LET e == evaluate(ast[pc].expression.arguments[1], environment, heap) IN
            /\ e.err = NoErr => lastValue' = VBool(TRUE)
            /\ e.err.msg = "Property does not exist" => lastValue' = VBool(FALSE)
            /\ (e.err = NoErr \/ e.err.msg = "Property does not exist")
               => (environment' = environment /\ runState' = "running")]_vars
    /\ []((runState = "returned" /\ ast = <<ExpressionStmt(HasName)>>)
          => lastValue = VBool(UserHasName))

\* C15 witness: has(u.name) has returned false for the user {}.
C15_Witness ==
    /\ runState = "returned"
    /\ ast = <<ExpressionStmt(HasName)>>
    /\ context.u = Nobody
    /\ lastValue = VBool(FALSE)
    /\ environment = context

\* interpret() is at an expression statement that is exists or all over a
\* list literal.
AtMacro ==
    /\ runState = "running" /\ pc <= Len(ast)
    /\ ast[pc].kind = "ExpressionStmt"
    /\ ast[pc].expression.kind = "Call"
    /\ ast[pc].expression.callee.kind = "Member"
    /\ ast[pc].expression.callee.property \in {"exists", "all"}
    /\ ast[pc].expression.callee.object.kind = "List"

\* The rule for the list macros from list[k]: the elements are taken in
\* index order; an error of the body ends the macro; exists ends with true
\* at the first truthy body, all ends with false at the first body that is
\* not truthy; the body is evaluated for no element after that.
RECURSIVE MacroRule(_, _, _, _, _, _)
MacroRule(method, list, k, lambda, env, h) ==
    IF k > Len(list) THEN [err |-> NoErr, val |-> VBool(method = "all"), h |-> h]
    ELSE LET body == evaluate(lambda.body, MapSet(env, lambda.parameter, list[k]), h) IN
         IF body.err # NoErr THEN [err |-> body.err, val |-> VUndefined, h |-> body.h]
         ELSE IF method = "exists" /\ Truthy(body.val)
         THEN [err |-> NoErr, val |-> VBool(TRUE), h |-> body.h]
         ELSE IF method = "all" /\ ~Truthy(body.val)
         THEN [err |-> NoErr, val |-> VBool(FALSE), h |-> body.h]
         ELSE MacroRule(method, list, k + 1, lambda, body.env, body.h)

\* C16 (list macros): exists returns true at the first element, in index
\* order, whose body is truthy and false when there is none; all returns
\* false at the first element whose body is not truthy and true when there
\* is none; no body is evaluated after the deciding element, and none at all
\* on the empty list.
C16_MacrosDecideAtFirst ==
    [][AtMacro =>
        LET call == ast[pc].expression
            list == evaluate(call.callee.object, environment, heap)
            rule == MacroRule(call.callee.property, list.val.elems, 1,
                              call.arguments[1], list.env, list.h)
        IN  /\ runErr' = rule.err
            /\ heap' = rule.h
            /\ rule.err = NoErr => lastValue' = rule.val]_vars

\* interpret() is at an If whose condition evaluates to a value.
AtIf ==
    /\ runState = "running" /\ pc <= Len(ast)
    /\ ast[pc].kind = "If"
    /\ evaluate(ast[pc].condition, environment, heap).err = NoErr

\* The rule for If: the outcome of the branch the condition selects,
\* executed on its own after the condition; nothing when the condition is
\* false and there is no else.
SelectedBranch ==
    LET stmt == ast[pc]
        condition == evaluate(stmt.condition, environment, heap)
    IN  IF Truthy(condition.val) THEN execute(stmt.thenBranch, condition.env, condition.h)
        ELSE IF stmt.hasElse THEN execute(stmt.elseBranch, condition.env, condition.h)
        ELSE EvOk(VNull, condition.env, condition.h)

TwoBranchRule ==
    <<VarDecl("d", TInt, IntLit(0)),
      Branching(Assignment("d", IntLit(1)), VarDecl("e", TInt, IntLit(2))),
      ExpressionStmt(Variable("d"))>>

\* C17 (if): an If has the effect of the branch its condition selects and
\* of nothing else: the other branch binds nothing and throws nothing, and
\* what the taken branch assigns is seen after the If. The pricing rule
\* returns x - k when b is true and x when it is false.
C17_IfExecutesSelectedBranch ==
    /\ [][AtIf => (/\ environment' = SelectedBranch.env
                   /\ runErr' = SelectedBranch.err)]_vars
    /\ [](\A k \in 1..MaxInt :
            (runState = "returned" /\ ast = PricingRule(k))
            => lastValue = IF context.b = VBool(TRUE)
                           THEN NumSub(context.x, VInt(k)) ELSE context.x)
    /\ []((Finished /\ ast = <<Branching(ExpressionStmt(BadDate),
                                         ExpressionStmt(Variable("x")))>>)
          => (runState = "thrown" <=> context.b = VBool(TRUE)))
    /\ []((runState = "returned" /\ ast = TwoBranchRule)
          => IF context.b = VBool(TRUE)
             THEN lastValue = VInt(1) /\ "e" \notin DOMAIN environment
             ELSE lastValue = VInt(0) /\ environment["e"] = VInt(2))

\* C17 witness: the pricing rule has returned x - MaxInt on a context in
\* which b is true.
C17_Witness ==
    /\ runState = "returned"
    /\ ast = PricingRule(MaxInt)
    /\ context.b = VBool(TRUE)
    /\ lastValue = NumSub(context.x, VInt(MaxInt))
    /\ environment["d"] = VInt(MaxInt)

\* ------------------------------------------------------------------ parser
\* Most binary operators in one generated expression.
MaxOps == 2

\* A token as the Lexer hands it over; value is the text of the token.
Token(type, value) == [type |-> type, value |-> value]

\* Result of a parsing method: the error thrown (or NoErr), the node
\* returned, and this.current as the method leaves it (from 1).
PrOk(node, current) == [err |-> NoErr, node |-> node, current |-> current]
PrThrow(class, msg, current) ==
    [err |-> Err(class, msg), node |-> [kind |-> "none"], current |-> current]

\* check(type): false at EOF, else whether the current token has the type.
check(tks, current, type) == tks[current].type # "EOF" /\ tks[current].type = type

\* parseInt on the text of a NUMBER token, a string of decimal digits.
DigitValue(c) ==
    CASE c = "0" -> 0 [] c = "1" -> 1 [] c = "2" -> 2 [] c = "3" -> 3 [] c = "4" -> 4
      [] c = "5" -> 5 [] c = "6" -> 6 [] c = "7" -> 7 [] c = "8" -> 8 [] c = "9" -> 9
RECURSIVE parseInt(_)
parseInt(str) ==
    IF Len(str) = 0 THEN 0
    ELSE 10 * parseInt(SubSeq(str, 1, Len(str) - 1)) + DigitValue(SubSeq(str, Len(str), Len(str)))

\* The token types matched by the loop of each binary level, from logicOr
\* (1) to factor (6).
MatchedAt_termWithFactor(level) ==
    CASE level = 1 -> {"OR"}
      [] level = 2 -> {"AND"}
      [] level = 3 -> {"EQ_EQ", "BANG_EQ"}
      [] level = 4 -> {"GREATER", "GREATER_EQUAL", "LESS", "LESS_EQUAL", "IN"}
      [] level = 5 -> {"MINUS", "PLUS", "DIVIDE", "MULTIPLY"}
      [] level = 6 -> {}

MatchedAt(level) ==
    CASE level = 1 -> {"OR"}
      [] level = 2 -> {"AND"}
      [] level = 3 -> {"EQ_EQ", "BANG_EQ"}
      [] level = 4 -> {"GREATER", "GREATER_EQUAL", "LESS", "LESS_EQUAL", "IN"}
      [] level = 5 -> {"MINUS", "PLUS"}
      [] level = 6 -> {"DIVIDE", "MULTIPLY"}

RECURSIVE binaryLevel(_, _, _)
RECURSIVE binaryLoop(_, _, _, _)
RECURSIVE unary(_, _)
RECURSIVE call(_, _)
RECURSIVE callLoop(_, _, _)
RECURSIVE finishCall(_, _, _)
RECURSIVE finishMacroCall(_, _, _, _)
RECURSIVE expressionList(_, _, _)
RECURSIVE propertyList(_, _, _)
RECURSIVE primary(_, _)


\* logicOr, logicAnd, equality, comparison, term and factor: parse the
\* operand of the next level, then the while loop.
binaryLevel(level, tks, current) ==
    IF level > 6 THEN unary(tks, current)
    ELSE Only({IF expr.err # NoErr THEN expr
               ELSE binaryLoop(level, tks, expr.node, expr.current) :
               expr \in {binaryLevel(level + 1, tks, current)}})

\* while (this.match(...)) { operator; right; expr = Binary(expr, operator, right) }
binaryLoop(level, tks, expr, current) ==
    IF tks[current].type \in MatchedAt(level)
    THEN Only({IF right.err # NoErr THEN right
               ELSE binaryLoop(level, tks, Binary(expr, tks[current].value, right.node),
                               right.current) :
               right \in {binaryLevel(level + 1, tks, current + 1)}})
    ELSE PrOk(expr, current)

logicOr(tks, current) == binaryLevel(1, tks, current)
logicAnd(tks, current) == binaryLevel(2, tks, current)
equality(tks, current) == binaryLevel(3, tks, current)
comparison(tks, current) == binaryLevel(4, tks, current)
term(tks, current) == binaryLevel(5, tks, current)
factor(tks, current) == binaryLevel(6, tks, current)
expression(tks, current) == logicOr(tks, current)

unary(tks, current) ==
    IF tks[current].type \in {"BANG", "MINUS"}
    THEN Only({IF right.err # NoErr THEN right
               ELSE PrOk(Unary(tks[current].value, right.node), right.current) :
               right \in {unary(tks, current + 1)}})
    ELSE call(tks, current)

call(tks, current) ==
    Only({IF expr.err # NoErr THEN expr ELSE callLoop(tks, expr.node, expr.current) :
          expr \in {primary(tks, current)}})

\* The while (true) loop of call().
callLoop(tks, expr, current) ==
    IF check(tks, current, "LPAREN")
    THEN Only({IF r.err # NoErr THEN r ELSE callLoop(tks, r.node, r.current) :
               r \in {finishCall(tks, expr, current + 1)}})
    ELSE IF check(tks, current, "DOT")
    THEN IF ~check(tks, current + 1, "IDENTIFIER")
         THEN PrThrow("SyntaxError", "Expect property name after '.'.", current + 1)
         ELSE LET name == tks[current + 1].value
                  after == current + 2
              IN  IF name \in {"exists", "all"}
                  THEN IF ~check(tks, after, "LPAREN")
                       THEN PrThrow("SyntaxError", "Expect '(' after macro name.", after)
                       ELSE Only({IF r.err # NoErr THEN r
                                  ELSE callLoop(tks, r.node, r.current) :
                                  r \in {finishMacroCall(tks, expr, name, after + 1)}})
                  ELSE IF check(tks, after, "LPAREN")
                  THEN Only({IF r.err # NoErr THEN r ELSE callLoop(tks, r.node, r.current) :
                             r \in {finishCall(tks, Member(expr, name), after + 1)}})
                  ELSE callLoop(tks, Member(expr, name), after)
    ELSE PrOk(expr, current)

\* do { push(expression()) } while (match(COMMA)): the elements pushed (in
\* node) and the position after the last one.
expressionList(tks, elements, current) ==
    Only({IF e.err # NoErr THEN e
          ELSE IF check(tks, e.current, "COMMA")
          THEN expressionList(tks, Append(elements, e.node), e.current + 1)
          ELSE PrOk(Append(elements, e.node), e.current) :
          e \in {expression(tks, current)}})

finishCall(tks, callee, current) ==
    Only({IF args.err # NoErr THEN args
          ELSE IF ~check(tks, args.current, "RPAREN")
          THEN PrThrow("SyntaxError", "Expect ')' after arguments.", args.current)
          ELSE PrOk(Call(callee, args.node), args.current + 1) :
          args \in {IF check(tks, current, "RPAREN") THEN PrOk(<<>>, current)
                    ELSE expressionList(tks, <<>>, current)}})

finishMacroCall(tks, object, name, current) ==
    IF ~check(tks, current, "IDENTIFIER")
    THEN PrThrow("SyntaxError", "Expect lambda parameter name.", current)
    ELSE IF ~check(tks, current + 1, "COMMA")
    THEN PrThrow("SyntaxError", "Expect ',' after parameter.", current + 1)
    ELSE Only({IF body.err # NoErr THEN body
               ELSE IF ~check(tks, body.current, "RPAREN")
               THEN PrThrow("SyntaxError", "Expect ')' after macro body.", body.current)
               ELSE PrOk(Call(Member(object, name),
                              <<Lambda(tks[current].value, body.node)>>),
                         body.current + 1) :
               body \in {expression(tks, current + 2)}})

\* The do-while loop of the object literal.
propertyList(tks, properties, current) ==
    IF ~check(tks, current, "IDENTIFIER")
    THEN PrThrow("SyntaxError", "Expect key.", current)
    ELSE IF ~check(tks, current + 1, "COLON")
    THEN PrThrow("SyntaxError", "Expect ':' after key.", current + 1)
    ELSE Only({IF value.err # NoErr THEN value
               ELSE IF check(tks, value.current, "COMMA")
               THEN propertyList(tks, Append(properties, Prop(tks[current].value, value.node)),
                                 value.current + 1)
               ELSE PrOk(Append(properties, Prop(tks[current].value, value.node)),
                         value.current) :
               value \in {expression(tks, current + 2)}})

primary(tks, current) ==
    IF check(tks, current, "FALSE") THEN PrOk(Literal(VBool(FALSE), TBool), current + 1)
    ELSE IF check(tks, current, "TRUE") THEN PrOk(Literal(VBool(TRUE), TBool), current + 1)
    ELSE IF check(tks, current, "NUMBER")
    THEN PrOk(Literal(VInt(parseInt(tks[current].value)), TInt), current + 1)
    ELSE IF check(tks, current, "STRING")
    THEN PrOk(Literal(VStr(tks[current].value), TString), current + 1)
    ELSE IF check(tks, current, "IDENTIFIER")
    THEN PrOk(Variable(tks[current].value), current + 1)
    ELSE IF check(tks, current, "LPAREN")
    THEN Only({IF expr.err # NoErr THEN expr
               ELSE IF ~check(tks, expr.current, "RPAREN")
               THEN PrThrow("SyntaxError", "Expect ')' after expression.", expr.current)
               ELSE PrOk(expr.node, expr.current + 1) :
               expr \in {expression(tks, current + 1)}})
    ELSE IF check(tks, current, "LBRACE")
    THEN Only({IF properties.err # NoErr THEN properties
               ELSE IF ~check(tks, properties.current, "RBRACE")
               THEN PrThrow("SyntaxError", "Expect '}' after object properties.",
                            properties.current)
               ELSE PrOk(ObjectExpr(properties.node), properties.current + 1) :
               properties \in {IF check(tks, current + 1, "RBRACE")
                               THEN PrOk(<<>>, current + 1)
                               ELSE propertyList(tks, <<>>, current + 1)}})
    ELSE IF check(tks, current, "LBRACKET")
    THEN Only({IF elements.err # NoErr THEN elements
               ELSE IF ~check(tks, elements.current, "RBRACKET")
               THEN PrThrow("SyntaxError", "Expect ']' after list elements.",
                            elements.current)
               ELSE PrOk(ListExpr(elements.node), elements.current + 1) :
               elements \in {IF check(tks, current + 1, "RBRACKET")
                             THEN PrOk(<<>>, current + 1)
                             ELSE expressionList(tks, <<>>, current + 1)}})
    ELSE PrThrow("SyntaxError", "Expect expression", current)

RECURSIVE declaration(_, _)
RECURSIVE statement(_, _)
RECURSIVE elseOf(_, _, _)
RECURSIVE blockLoop(_, _, _)

\* The type keyword of a declaration and the annotation it stands for.
AnnotationOf(type) ==
    CASE type = "TYPE_INT" -> TInt
      [] type = "TYPE_STRING" -> TString
      [] type = "TYPE_BOOL" -> TBool
      [] type = "TYPE_DATE" -> TDate
      [] type = "TYPE_OBJECT" -> TObject(EmptyMap)

\* varDeclaration(), entered after LET was matched.
varDeclaration(tks, current) ==
    IF ~check(tks, current, "IDENTIFIER")
    THEN PrThrow("SyntaxError", "Expect variable name.", current)
    ELSE IF ~check(tks, current + 1, "COLON")
    THEN PrThrow("SyntaxError", "Expect ':' after variable name.", current + 1)
    ELSE IF ~(\E type \in {"TYPE_INT", "TYPE_STRING", "TYPE_BOOL", "TYPE_DATE", "TYPE_OBJECT"} :
                check(tks, current + 2, type))
    THEN PrThrow("Error", "Expect type annotation (int, string, bool, date, object).",
                 current + 2)
    ELSE LET base == AnnotationOf(tks[current + 2].type)
             array == check(tks, current + 3, "LBRACKET")
             typeAnnotation == IF array THEN TList(base) ELSE base
             equals == IF array THEN current + 5 ELSE current + 3
         IN  IF array /\ ~check(tks, current + 4, "RBRACKET")
             THEN PrThrow("SyntaxError", "Expect ']' after '[' for array type.", current + 4)
             ELSE IF ~check(tks, equals, "EQUALS")
             THEN PrThrow("SyntaxError", "Expect '=' after variable declaration.", equals)
             ELSE Only({IF initializer.err # NoErr THEN initializer
                        ELSE IF ~check(tks, initializer.current, "SEMICOLON")
                        THEN PrThrow("SyntaxError", "Expect ';' after variable declaration.",
                                     initializer.current)
                        ELSE PrOk(VarDecl(tks[current].value, typeAnnotation,
                                          initializer.node),
                                  initializer.current + 1) :
                        initializer \in {expression(tks, equals + 1)}})

\* peekNext(): the token after the current one, the last token (EOF) when
\* there is none.
peekNext(tks, current) == IF current + 1 > Len(tks) THEN tks[Len(tks)] ELSE tks[current + 1]

assignment(tks, current) ==
    Only({IF value.err # NoErr THEN value
          ELSE IF ~check(tks, value.current, "SEMICOLON")
          THEN PrThrow("SyntaxError", "Expect ';' after value.", value.current)
          ELSE PrOk(Assignment(tks[current].value, value.node), value.current + 1) :
          value \in {expression(tks, current + 2)}})

\* The rest of ifStatement() once the then-branch is parsed.
elseOf(tks, condition, thenBranch) ==
    IF thenBranch.err # NoErr THEN thenBranch
    ELSE IF check(tks, thenBranch.current, "ELSE")
    THEN Only({IF elseBranch.err # NoErr THEN elseBranch
               ELSE PrOk(IfStmt(condition, thenBranch.node, TRUE, elseBranch.node),
                         elseBranch.current) :
               elseBranch \in {statement(tks, thenBranch.current + 1)}})
    ELSE PrOk(IfStmt(condition, thenBranch.node, FALSE, BlockStmt(<<>>)),
              thenBranch.current)

\* ifStatement(), entered after IF was matched.
ifStatement(tks, current) ==
    IF ~check(tks, current, "LPAREN")
    THEN PrThrow("SyntaxError", "Expect '(' after 'if'.", current)
    ELSE Only({IF condition.err # NoErr THEN condition
               ELSE IF ~check(tks, condition.current, "RPAREN")
               THEN PrThrow("SyntaxError", "Expect ')' after if condition.",
                            condition.current)
               ELSE Only({elseOf(tks, condition.node, thenBranch) :
                          thenBranch \in {statement(tks, condition.current + 1)}}) :
               condition \in {expression(tks, current + 1)}})

\* block(), entered after LBRACE was matched: the while loop, then the
\* closing brace.
blockLoop(tks, statements, current) ==
    IF ~check(tks, current, "RBRACE") /\ tks[current].type # "EOF"
    THEN Only({IF d.err # NoErr THEN d
               ELSE blockLoop(tks, Append(statements, d.node), d.current) :
               d \in {declaration(tks, current)}})
    ELSE IF ~check(tks, current, "RBRACE")
    THEN PrThrow("SyntaxError", "Expect '}' after block.", current)
    ELSE PrOk(statements, current + 1)

block(tks, current) == blockLoop(tks, <<>>, current)

expressionStatement(tks, current) ==
    Only({IF expr.err # NoErr THEN expr
          ELSE IF ~check(tks, expr.current, "RBRACE") /\ tks[expr.current].type # "EOF"
          THEN IF ~check(tks, expr.current, "SEMICOLON")
               THEN PrThrow("SyntaxError", "Expect ';' after expression.", expr.current)
               ELSE PrOk(ExpressionStmt(expr.node), expr.current + 1)
          ELSE PrOk(ExpressionStmt(expr.node),
                    IF check(tks, expr.current, "SEMICOLON") THEN expr.current + 1
                    ELSE expr.current) :
          expr \in {expression(tks, current)}})

statement(tks, current) ==
    IF check(tks, current, "IF") THEN ifStatement(tks, current + 1)
    ELSE IF check(tks, current, "LBRACE")
    THEN Only({IF statements.err # NoErr THEN statements
               ELSE PrOk(BlockStmt(statements.node), statements.current) :
               statements \in {block(tks, current + 1)}})
    ELSE IF check(tks, current, "IDENTIFIER") /\ peekNext(tks, current).type = "EQUALS"
    THEN assignment(tks, current)
    ELSE expressionStatement(tks, current)

declaration(tks, current) ==
    IF check(tks, current, "LET") THEN varDeclaration(tks, current + 1)
    ELSE statement(tks, current)

\* Parser.parse(): declarations until EOF.
RECURSIVE parseLoop(_, _, _)
parseLoop(tks, statements, current) ==
    IF tks[current].type # "EOF"
    THEN Only({IF d.err # NoErr THEN d
               ELSE parseLoop(tks, Append(statements, d.node), d.current) :
               d \in {declaration(tks, current)}})
    ELSE PrOk(statements, current)

parse(tks) == parseLoop(tks, <<>>, 1)

\* ------------------------------------------------------------ token inputs
\* The token the Lexer makes of an operator, a punctuation mark or a keyword.
SymbolType(value) ==
    CASE value = "||" -> "OR" [] value = "&&" -> "AND"
      [] value = "==" -> "EQ_EQ" [] value = "!=" -> "BANG_EQ"
      [] value = ">" -> "GREATER" [] value = ">=" -> "GREATER_EQUAL"
      [] value = "<" -> "LESS" [] value = "<=" -> "LESS_EQUAL" [] value = "in" -> "IN"
      [] value = "+" -> "PLUS" [] value = "-" -> "MINUS"
      [] value = "*" -> "MULTIPLY" [] value = "/" -> "DIVIDE"
      [] value = "!" -> "BANG" [] value = "=" -> "EQUALS"
      [] value = ";" -> "SEMICOLON" [] value = ":" -> "COLON"
      [] value = "(" -> "LPAREN" [] value = ")" -> "RPAREN"
      [] value = "{" -> "LBRACE" [] value = "}" -> "RBRACE"
      [] value = "[" -> "LBRACKET" [] value = "]" -> "RBRACKET"
      [] value = "." -> "DOT" [] value = "," -> "COMMA"
      [] value = "let" -> "LET" [] value = "if" -> "IF" [] value = "else" -> "ELSE"
      [] value = "true" -> "TRUE" [] value = "false" -> "FALSE"
      [] value = "int" -> "TYPE_INT" [] value = "string" -> "TYPE_STRING"
      [] value = "bool" -> "TYPE_BOOL"
Sym(value) == Token(SymbolType(value), value)
Num(digits) == Token("NUMBER", digits)
Id(name) == Token("IDENTIFIER", name)
EOF == Token("EOF", "")

BinaryOperators ==
    {"||", "&&", "==", "!=", ">", ">=", "<", "<=", "in", "+", "-", "*", "/"}
UnaryOperators == {"!", "-"}

\* The operand written at a position of an operator expression: the number
\* of the position, or for the first one also the member access u.name.
OperandsAt(k) ==
    {<<Num(<<"1", "2", "3", "4", "5">>[k])>>}
    \cup (IF k = 1 THEN {<<Id("u"), Sym("."), Id("name")>>} ELSE {})

\* No, or one, unary operator in front of the first two operands.
PrefixesAt(k) == {<<>>} \cup (IF k <= 2 THEN {<<Sym(op)>> : op \in UnaryOperators} ELSE {})

\* operand (operator operand)*, the operands with their prefixes.
RECURSIVE OperatorTokens(_, _, _)
OperatorTokens(ops, prefixes, operands) ==
    IF Len(ops) = 0 THEN prefixes[1] \o operands[1]
    ELSE OperatorTokens(SubSeq(ops, 1, Len(ops) - 1),
                        SubSeq(prefixes, 1, Len(ops)), SubSeq(operands, 1, Len(ops)))
         \o <<Sym(ops[Len(ops)])>> \o prefixes[Len(ops) + 1] \o operands[Len(ops) + 1]

OperatorSources ==
    UNION {{OperatorTokens(ops, prefixes, operands) \o <<EOF>> :
               ops \in [1..n -> BinaryOperators],
               prefixes \in {f \in [1..(n + 1) -> {<<>>} \cup {<<Sym(op)>> : op \in UnaryOperators}] :
                               \A k \in 1..(n + 1) : f[k] \in PrefixesAt(k)},
               operands \in {f \in [1..(n + 1) -> UNION {OperandsAt(k) : k \in 1..(n + 1)}] :
                               \A k \in 1..(n + 1) : f[k] \in OperandsAt(k)}} :
           n \in 0..MaxOps}

\* 100 - 10 + 10 and (1 + 2) * 3
Hundred == <<Num("100"), Sym("-"), Num("10"), Sym("+"), Num("10"), EOF>>
Parenthesised ==
    <<Sym("("), Num("1"), Sym("+"), Num("2"), Sym(")"), Sym("*"), Num("3"), EOF>>

\* Rules of every statement kind:
\*   let y: int = 1 + 2 * 3; y = y - 1 - 1; y
\*   if (b) { x = x + 1; } else x = 0; x
\*   if (!b || x > 1 && b) { 1; }
StatementSources ==
    {<<Sym("let"), Id("y"), Sym(":"), Sym("int"), Sym("="),
       Num("1"), Sym("+"), Num("2"), Sym("*"), Num("3"), Sym(";"),
       Id("y"), Sym("="), Id("y"), Sym("-"), Num("1"), Sym("-"), Num("1"), Sym(";"),
       Id("y"), EOF>>,
     <<Sym("if"), Sym("("), Id("b"), Sym(")"),
       Sym("{"), Id("x"), Sym("="), Id("x"), Sym("+"), Num("1"), Sym(";"), Sym("}"),
       Sym("else"), Id("x"), Sym("="), Num("0"), Sym(";"), Id("x"), EOF>>,
     <<Sym("if"), Sym("("), Sym("!"), Id("b"), Sym("||"), Id("x"), Sym(">"), Num("1"),
       Sym("&&"), Id("b"), Sym(")"), Sym("{"), Num("1"), Sym(";"), Sym("}"), EOF>>,
     <<Sym("{"), Num("2"), Sym("*"), Num("3"), Sym("/"), Num("2"), Sym(";"), Sym("}"), EOF>>}

Sources == OperatorSources \cup {Hundred, Parenthesised} \cup StatementSources

\* Parser.parse() on the tokens of the rule, as Axiom.compile runs it.
Parse ==
    /\ compileState = "new"
    /\ \E r \in {parse(tokens)} :
          IF r.err = NoErr
          THEN compileState' = "compiled" /\ ast' = r.node /\ compileErr' = NoErr
          ELSE compileState' = "failed" /\ ast' = ast /\ compileErr' = r.err
    /\ UNCHANGED <<tokens, contract, context, history, checkVars, runVars>>

InitParse ==
    /\ tokens \in Sources
    /\ compileState = "new" /\ compileErr = NoErr
    /\ ast = <<>>
    /\ contract = NoOutputs
    /\ context = [x |-> VInt(1), b |-> VBool(TRUE), u |-> Alice]
    /\ history = <<>>
    /\ checkState = "new" /\ variables = EmptyMap /\ i = 0 /\ checkErr = NoErr
    /\ runState = "idle" /\ environment = EmptyMap /\ pc = 0
    /\ lastValue = VNull /\ runErr = NoErr /\ heap = 1

NextParse == Parse \/ Next

SpecParse == InitParse /\ [][NextParse]_vars

\* The level of a binary operator in the precedence table, low to high.
LevelOf(operator) ==
    CASE operator = "||" -> 1
      [] operator = "&&" -> 2
      [] operator \in {"==", "!="} -> 3
      [] operator \in {">", ">=", "<", "<=", "in"} -> 4
      [] operator \in {"+", "-"} -> 5
      [] operator \in {"*", "/"} -> 6

\* A token of tks[lo..hi] is a binary operator when an operand ends just
\* before it (a '-' after an operator or at the start is unary).
BinaryAt(tks, lo, k) ==
    /\ tks[k].value \in BinaryOperators
    /\ k > lo
    /\ tks[k - 1].type \in {"NUMBER", "IDENTIFIER"}

\* The tree the precedence table prescribes for the parenthesis-free
\* expression tks[lo..hi]: its root is the rightmost of the binary
\* operators of the lowest level; without a binary operator a leading unary
\* operator applies to all the rest, and a trailing .name to all before it.
RECURSIVE Grouped(_, _, _)
Grouped(tks, lo, hi) ==
    LET binaries == {k \in lo..hi : BinaryAt(tks, lo, k)} IN
    IF binaries # {}
    THEN LET lowest == CHOOSE k \in binaries :
                           \A j \in binaries : LevelOf(tks[k].value) <= LevelOf(tks[j].value)
             root == CHOOSE k \in binaries :
                         /\ LevelOf(tks[k].value) = LevelOf(tks[lowest].value)
                         /\ \A j \in binaries :
                                LevelOf(tks[j].value) = LevelOf(tks[k].value) => j <= k
         IN  Binary(Grouped(tks, lo, root - 1), tks[root].value, Grouped(tks, root + 1, hi))
    ELSE IF tks[lo].value \in UnaryOperators
    THEN Unary(tks[lo].value, Grouped(tks, lo + 1, hi))
    ELSE IF hi > lo THEN Member(Grouped(tks, lo, hi - 2), tks[hi].value)
    ELSE IF tks[lo].type = "NUMBER" THEN Literal(VInt(parseInt(tks[lo].value)), TInt)
    ELSE Variable(tks[lo].value)

OnePlusTwoTimesThree == <<Num("1"), Sym("+"), Num("2"), Sym("*"), Num("3"), EOF>>

\* C18 (precedence and associativity): compile accepts every expression
\* built from operands, binary operators and unary prefixes, and yields
\* the tree in which the higher level binds tighter and equal levels
\* group to the left, unary operators bind tighter than every binary one
\* and postfix access tighter than unary, and a parenthesised operand is
\* one operand; 1 + 2 * 3 is checked, executed and returns 7,
\* 100 - 10 + 10 returns 100.
C18_PrecedenceAndAssociativity ==
    /\ tokens \in OperatorSources \cup {Hundred}
       => /\ compileState # "failed"
          /\ compileState = "compiled"
             => ast = <<ExpressionStmt(Grouped(tokens, 1, Len(tokens) - 1))>>
    /\ tokens \in {OnePlusTwoTimesThree, Hundred}
       => /\ checkState # "rejected" /\ runState # "thrown"
          /\ runState = "returned"
             => lastValue = (IF tokens = Hundred THEN VInt(100) ELSE VInt(7))
    /\ tokens = Parenthesised
       => /\ compileState # "failed"
          /\ compileState = "compiled"
             => ast = <<ExpressionStmt(Binary(Binary(IntLit(1), "+", IntLit(2)), "*",
                                              IntLit(3)))>>

\* C18 witness: 1 - -2 * 3 was compiled to 1 - ((-2) * 3), checked and
\* executed, and returned 7.
C18_Witness ==
    /\ tokens = <<Num("1"), Sym("-"), Sym("-"), Num("2"), Sym("*"), Num("3"), EOF>>
    /\ runState = "returned"
    /\ ast = <<ExpressionStmt(Binary(IntLit(1), "-",
                                     Binary(Unary("-", IntLit(2)), "*", IntLit(3))))>>
    /\ lastValue = VInt(7)

\* ------------------------------------------------- the checker on list literals
\* Most elements of a generated list literal.
MaxElems == 3

\* 1, "a", x, [], [1], ["a"], {}, {a: 1}
ElementExprs ==
    {IntLit(1), StrLit("a"), Variable("x"),
     ListExpr(<<>>), ListExpr(<<IntLit(1)>>), ListExpr(<<StrLit("a")>>),
     ObjectExpr(<<>>), ObjectA(IntLit(1))}

ListLiterals == {ListExpr(elements) : elements \in UNION {[1..n -> ElementExprs] : n \in 0..MaxElems}}

\* A list literal as a statement, as an initializer, assigned, and inside
\* a block and an if:
\*   l    let l: int[] = l;    x = l;    { l }    if (b) { l }
ListRules ==
    UNION {{<<ExpressionStmt(l)>>,
            <<VarDecl("l", TList(TInt), l)>>,
            <<Assignment("x", l)>>,
            <<BlockStmt(<<ExpressionStmt(l)>>)>>,
            <<IfStmt(Variable("b"), BlockStmt(<<ExpressionStmt(l)>>), FALSE, BlockStmt(<<>>))>>} :
           l \in ListLiterals}

InitList ==
    /\ ast \in ListRules
    /\ contract = NoOutputs
    /\ context = [x |-> VInt(0), b |-> VBool(TRUE), u |-> Alice]
    /\ InitObjects

SpecList == InitList /\ [][CheckNext]_vars

\* The list literal of the rule, and the type of its k-th element.
TheList ==
    CASE ast[1].kind = "ExpressionStmt" -> ast[1].expression
      [] ast[1].kind = "VarDecl" -> ast[1].initializer
      [] ast[1].kind = "Assignment" -> ast[1].value
      [] ast[1].kind = "Block" -> ast[1].statements[1].expression
      [] ast[1].kind = "If" -> ast[1].thenBranch.statements[1].expression
ElementType(k) == checkExpression(TheList.elements[k], contract.inputs).type

\* Two element types are equal under ~ (in either direction).
SameType(t1, t2) == Unifies(t1, t2) \/ Unifies(t2, t1)
Homogeneous ==
    \A j, k \in 1..Len(TheList.elements) : SameType(ElementType(j), ElementType(k))

\* C19 (list homogeneity): a rule whose list literal has two elements of
\* types that are not equal under ~ is never accepted: check ends rejected
\* with 'List elements must be homogeneous'.
C19_ListHomogeneity ==
    /\ checkState = "accepted" => Homogeneous
    /\ checkState = "rejected" /\ ~Homogeneous
       => checkErr.msg = "List elements must be homogeneous"

\* ------------------------------------------------------ equality at runtime
\* interpret() is at an expression statement that compares with ==, != or in.
AtEquality ==
    /\ runState = "running" /\ pc <= Len(ast)
    /\ ast[pc].kind = "ExpressionStmt"
    /\ ast[pc].expression.kind = "Binary"
    /\ ast[pc].expression.operator \in {"==", "!=", "in"}

\* Deep structural equality of two values: the same tag and equal contents.
DeepEqual(v1, v2) == v1.t = v2.t /\ Content(v1) = Content(v2)

\* What the comparison gives on operand values under structural equality.
StructuralResult(operator, left, right) ==
    CASE operator = "==" -> DeepEqual(left, right)
      [] operator = "!=" -> ~DeepEqual(left, right)
      [] operator = "in" -> \E k \in 1..Len(right.elems) : DeepEqual(left, right.elems[k])

\* C20 (structural equality): when both operands of ==, != or in evaluate,
\* the statement yields the boolean that deep structural equality gives:
\* two lists or two objects with equal contents are ==, and x in xs is true
\* exactly when some element of xs is structurally equal to x.
C20_StructuralEquality ==
    [][AtEquality =>
         LET left == evaluate(ast[pc].expression.left, environment, heap)
             right == evaluate(ast[pc].expression.right, left.env, left.h)
         IN  (left.err = NoErr /\ right.err = NoErr)
             => lastValue' = VBool(StructuralResult(ast[pc].expression.operator,
                                                    left.val, right.val))]_vars

\* --------------------------------------------- macros and the environment
\* Contexts with and without a key named like the lambda parameter s.
MacroContexts ==
    {[x |-> VInt(1), b |-> VBool(c), u |-> Alice] : c \in BOOLEAN}
    \cup {[x |-> VInt(1), b |-> VBool(c), u |-> Alice, s |-> VStr("2023-01-01")] :
            c \in BOOLEAN}

\* A macro over a list of date strings, or over a list whose evaluation
\* fails, or with a macro in its body:
\*   [..].m(s, timestamp(s) < late)   [timestamp("yesterday")].m(s, true)
\*   ["2023-01-01"].m(s, [x].exists(n, timestamp(s) < late))
EnvMacros ==
    {MacroCall(StrListExpr(l), m, "s", IsEarly) : l \in StrLists, m \in {"exists", "all"}}
    \cup {MacroCall(ListExpr(<<BadDate>>), m, "s", BoolLit(TRUE)) : m \in {"exists", "all"}}
    \cup {MacroCall(ListExpr(<<StrLit("2023-01-01")>>), m, "s",
                    MacroCall(ListExpr(<<Variable("x")>>), "exists", "n", IsEarly)) :
            m \in {"exists", "all"}}

\* The macro in a statement of every kind:
\*   e    let f: bool = e; f    b = e;    if (e) { x; }    { e; }
EnvRules ==
    UNION {{<<ExpressionStmt(e)>>,
            <<VarDecl("f", TBool, e), ExpressionStmt(Variable("f"))>>,
            <<Assignment("b", e)>>,
            <<IfStmt(e, BlockStmt(<<ExpressionStmt(Variable("x"))>>), FALSE, BlockStmt(<<>>))>>,
            <<BlockStmt(<<ExpressionStmt(e)>>)>>} :
           e \in EnvMacros}

InitEnv ==
    /\ ast \in EnvRules
    /\ contract = NoOutputs
    /\ context \in MacroContexts
    /\ InitObjects

SpecEnv == InitEnv /\ [][Next]_vars

\* The names a statement binds itself.
BoundBy(stmt) == IF stmt.kind \in {"VarDecl", "Assignment"} THEN {stmt.name} ELSE {}

\* interpret() is at the first statement of the rule, the one with the macro.
AtEnvMacro == runState = "running" /\ pc = 1 /\ pc <= Len(ast)

ComparedExprs ==
    {IntLit(1), StrLit("a"),
     ListExpr(<<>>), ListExpr(<<IntLit(1)>>), ListExpr(<<ListExpr(<<IntLit(1)>>)>>),
     ListExpr(<<ObjectA(IntLit(1))>>),
     ObjectExpr(<<>>), ObjectA(IntLit(1))}

Comparisons ==
    {Binary(l, op, r) : l \in ComparedExprs, r \in ComparedExprs, op \in {"==", "!="}}

\* A comparison in a statement of every kind:
\*   e    let f: bool = e;    b = e;    if (e) { }    { e; }
ComparisonRules ==
    UNION {{<<ExpressionStmt(e)>>,
            <<VarDecl("f", TBool, e)>>,
            <<Assignment("b", e)>>,
            <<IfStmt(e, BlockStmt(<<>>), FALSE, BlockStmt(<<>>))>>,
            <<BlockStmt(<<ExpressionStmt(e)>>)>>} :
           e \in Comparisons}

InitComparison ==
    /\ ast \in ComparisonRules
    /\ contract = NoOutputs
    /\ context = [x |-> VInt(0), b |-> VBool(TRUE), u |-> Alice]
    /\ InitObjects

SpecComparison == InitComparison /\ [][CheckNext]_vars

\* The comparison of the rule.
TheComparison ==
    CASE ast[1].kind = "ExpressionStmt" -> ast[1].expression
      [] ast[1].kind = "VarDecl" -> ast[1].initializer
      [] ast[1].kind = "Assignment" -> ast[1].value
      [] ast[1].kind = "Block" -> ast[1].statements[1].expression
      [] ast[1].kind = "If" -> ast[1].condition
OperandType(expr) == checkExpression(expr, contract.inputs).type

\* C22 (equality typing): check accepts a == b and a != b, with type Bool,
\* exactly when the operand types are equal under ~, Unknown unifying with
\* every type at any depth; otherwise check rejects the rule.
C22_EqualityTyping ==
    checkState \in {"accepted", "rejected"}
    => /\ checkState = "accepted"
          <=> Unifies(OperandType(TheComparison.left), OperandType(TheComparison.right))
       /\ checkState = "accepted" => OperandType(TheComparison) = TBool
       /\ checkState = "rejected" => checkErr # NoErr

\* --------------------------------------------------------- unbound variables
\* interpret() is at an expression statement that is a Variable.
AtVariable ==
    /\ runState = "running" /\ pc <= Len(ast)
    /\ ast[pc].kind = "ExpressionStmt"
    /\ ast[pc].expression.kind = "Variable"

\* C23 (undefined variable): evaluating a Variable whose name is not bound
\* in the runtime environment raises a Runtime error and yields no value.
C23_UnboundVariableRaises ==
    [][(AtVariable /\ ast[pc].expression.name \notin DOMAIN environment)
       => /\ runState' = "thrown"
          /\ runErr'.class = "RuntimeError"
          /\ lastValue' = lastValue]_vars

\* ------------------------------------------------------------ the result
\* interpret() is at the last top-level statement, an expression statement.
AtFinalExpression ==
    /\ runState = "running" /\ pc = Len(ast) /\ pc >= 1
    /\ ast[pc].kind = "ExpressionStmt"

\* C24 (implicit return): execute returns the value of the last top-level
\* statement when it is an expression statement, and Null when the last
\* top-level statement is of another kind or the program is empty.
C24_ImplicitReturn ==
    /\ []((runState = "returned" /\ (Len(ast) = 0 \/ ast[Len(ast)].kind # "ExpressionStmt"))
          => lastValue = VNull)
    /\ [][AtFinalExpression =>
            LET e == evaluate(ast[pc].expression, environment, heap) IN
            e.err = NoErr => lastValue' = e.val]_vars
    /\ []((runState = "returned" /\ Len(ast) > 0 /\ ast[Len(ast)].kind = "ExpressionStmt")
          => (pc = Len(ast) + 1 /\ runErr = NoErr))

\* ------------------------------------------------------------- error kinds
\* C25 (error kinds): a rule the parser rejects fails with a SyntaxError, a
\* rule check rejects fails with a TypeError, and a failure inside execute
\* is a RuntimeError; no other class of error leaves the pipeline.
C25_ErrorKindOfPhase ==
    /\ compileState = "failed" => compileErr.class = "SyntaxError"
    /\ checkState = "rejected" => checkErr.class = "TypeError"
    /\ runState = "thrown" => runErr.class = "RuntimeError"

\* ---------------------------------------------------------- Int arithmetic
\* x, 1 and 3; x * x * 4, which is 2^62 when x is 2^30, and its negation.
SmallInts == {Variable("x"), IntLit(1), IntLit(3)}
BigInt == Binary(Binary(Variable("x"), "*", Variable("x")), "*", IntLit(4))
BigInts == {BigInt, Unary("-", BigInt)}

\* Sums and differences of operands of like size, products of all, negations.
ArithExprs ==
    {Binary(l, op, r) : l \in SmallInts, r \in SmallInts, op \in {"+", "-"}}
    \cup {Binary(l, op, r) : l \in BigInts, r \in BigInts, op \in {"+", "-"}}
    \cup {Binary(l, "*", r) : l \in SmallInts \cup BigInts, r \in SmallInts \cup BigInts}
    \cup {Unary("-", e) : e \in SmallInts \cup BigInts}

\* The arithmetic in a statement of every kind:
\*   e    let y: int = e; y    x = e;    if (b) { e; }    { e; }
ArithRules ==
    UNION {{<<ExpressionStmt(e)>>,
            <<VarDecl("y", TInt, e), ExpressionStmt(Variable("y"))>>,
            <<Assignment("x", e)>>,
            <<IfStmt(Variable("b"), BlockStmt(<<ExpressionStmt(e)>>), FALSE, BlockStmt(<<>>))>>,
            <<BlockStmt(<<ExpressionStmt(e)>>)>>} :
           e \in ArithExprs}

\* x is 2^30, 3 or -2^30.
ArithContexts ==
    {[x |-> v, b |-> VBool(TRUE), u |-> Alice] :
        v \in {Normalize(1, 1, 1, 30), VInt(3), Normalize(-1, 1, 1, 30)}}

InitArith ==
    /\ ast \in ArithRules
    /\ contract = NoOutputs
    /\ context \in ArithContexts
    /\ InitObjects

SpecArith == InitArith /\ [][Next]_vars

\* The number of bits of n >= 0.
RECURSIVE BitLength(_)
BitLength(n) == IF n = 0 THEN 0 ELSE 1 + BitLength(n \div 2)

\* An integer of the range -2^63 .. 2^63 - 1.
InInt64(v) ==
    /\ v.t = "number" /\ v.den = 1
    /\ \/ v.num = 0
       \/ BitLength(v.num) + v.exp <= 63
       \/ v.sgn = -1 /\ v.num = 1 /\ v.exp = 63

\* The integer v taken modulo 2^64 into that range (v of exponent 34 or
\* more when it is outside the range).
Wrap64(v) ==
    IF InInt64(v) THEN v
    ELSE IF v.exp >= 64 THEN VInt(0)
    ELSE LET kept == IF 64 - v.exp > 30 THEN v.num ELSE v.num % Pow2(64 - v.exp)
             low == Normalize(1, kept, 1, v.exp)
             unsigned == IF v.sgn = 1 \/ kept = 0 THEN low
                         ELSE NumSub(Normalize(1, 1, 1, 64), low)
         IN  IF NumLess(unsigned, Normalize(1, 1, 1, 63)) THEN unsigned
             ELSE NumSub(unsigned, Normalize(1, 1, 1, 64))

\* interpret() is at an expression statement that is +, -, * or unary -.
AtArithmetic ==
    /\ runState = "running" /\ pc <= Len(ast)
    /\ ast[pc].kind = "ExpressionStmt"
    /\ \/ ast[pc].expression.kind = "Binary" /\ ast[pc].expression.operator \in {"+", "-", "*"}
       \/ ast[pc].expression.kind = "Unary" /\ ast[pc].expression.operator = "-"

\* The mathematical result of the operation on its operand values.
Exact(expr, env, h) ==
    IF expr.kind = "Unary" THEN NumNeg(evaluate(expr.right, env, h).val)
    ELSE LET l == evaluate(expr.left, env, h).val
             r == evaluate(expr.right, env, h).val
         IN  CASE expr.operator = "+" -> NumAdd(l, r)
               [] expr.operator = "-" -> NumSub(l, r)
               [] expr.operator = "*" -> NumMul(l, r)

\* The operands of the operation are integers of the 64-bit range.
IntOperands(expr, env, h) ==
    IF expr.kind = "Unary" THEN InInt64(evaluate(expr.right, env, h).val)
    ELSE InInt64(evaluate(expr.left, env, h).val) /\ InInt64(evaluate(expr.right, env, h).val)

\* C26 (Int arithmetic wraps): +, -, * and unary - on Int operands yield
\* the mathematical result taken modulo 2^64 into -2^63 .. 2^63 - 1, so
\* every such result is an integer of that range.
C26_IntArithmeticWraps ==
    [][(AtArithmetic /\ IntOperands(ast[pc].expression, environment, heap))
       => /\ runState' = "running"
          /\ lastValue' = Wrap64(Exact(ast[pc].expression, environment, heap))
          /\ InInt64(lastValue')]_vars

\* ------------------------------------------------ the checker on list macros
\* Lambda parameters: a fresh name, a contract input, a declared variable.
ParameterNames == {"n", "x", "y"}

\* Bodies over the parameter p:  p > 0   p   [x].all(p, p > 0)
\*   [x].exists(m, m > p)
BodiesOver(p) ==
    {Binary(Variable(p), ">", IntLit(0)),
     Variable(p),
     MacroCall(ListExpr(<<Variable("x")>>), "all", p, Binary(Variable(p), ">", IntLit(0))),
     MacroCall(ListExpr(<<Variable("x")>>), "exists", "m",
               Binary(Variable("m"), ">", Variable(p)))}

CheckedMacros ==
    UNION {{MacroCall(ListExpr(<<Variable("x")>>), method, p, body) :
               method \in {"exists", "all"}, body \in BodiesOver(p)} :
           p \in ParameterNames}

\* A macro after a declaration of y, two macros in a row, and a macro in
\* an assignment, an if and a block.
MacroCheckRules ==
    {<<VarDecl("y", TInt, IntLit(1)), ExpressionStmt(e)>> : e \in CheckedMacros}
    \cup {<<ExpressionStmt(e1), ExpressionStmt(e2)>> : e1 \in CheckedMacros, e2 \in CheckedMacros}
    \cup UNION {{<<Assignment("b", e)>>,
                 <<IfStmt(e, BlockStmt(<<>>), FALSE, BlockStmt(<<>>))>>,
                 <<BlockStmt(<<ExpressionStmt(e)>>)>>} : e \in CheckedMacros}

InitMacroCheck ==
    /\ ast \in MacroCheckRules
    /\ contract = NoOutputs
    /\ context = [x |-> VInt(0), b |-> VBool(TRUE), u |-> Alice]
    /\ InitObjects

SpecMacroCheck == InitMacroCheck /\ [][CheckNext]_vars

\* check() is at an expression statement that is exists or all over a list.
AtCheckedMacro ==
    /\ checkState = "checking" /\ i <= Len(ast)
    /\ ast[i].kind = "ExpressionStmt"
    /\ ast[i].expression \in CheckedMacros

\* The body's type with the parameter bound to the element type of the
\* list, in the environment check() is in.
BodyInferred ==
    LET lambda == ast[i].expression.arguments[1]
        listType == checkExpression(ast[i].expression.callee.object, variables).type
    IN  checkExpression(lambda.body,
                        MapSet(variables, lambda.parameter, listType.elementType))

\* C27 (macro parameter scope): a macro whose parameter is already bound
\* is rejected; otherwise it is accepted exactly when its body, inferred
\* with the parameter bound to the element type, is Bool, and then the
\* checker's environment after the macro is the one before it.
C27_MacroParameterScope ==
    [][AtCheckedMacro =>
         LET parameter == ast[i].expression.arguments[1].parameter IN
         /\ parameter \in DOMAIN variables => checkState' = "rejected"
         /\ (parameter \notin DOMAIN variables
             /\ (BodyInferred.err # NoErr \/ BodyInferred.type # TBool))
            => checkState' = "rejected"
         /\ (parameter \notin DOMAIN variables
             /\ BodyInferred.err = NoErr /\ BodyInferred.type = TBool)
            => (checkState' = "checking" /\ variables' = variables)]_vars

\* C27 witness: two macros with the parameter n in a row were accepted, the
\* second with a macro in its body, and the environment is the inputs.
C27_Witness ==
    /\ checkState = "accepted"
    /\ Len(ast) = 2
    /\ ast[1] = ExpressionStmt(MacroCall(ListExpr(<<Variable("x")>>), "exists", "n",
                                         Binary(Variable("n"), ">", IntLit(0))))
    /\ ast[2] = ExpressionStmt(MacroCall(ListExpr(<<Variable("x")>>), "all", "n",
                    MacroCall(ListExpr(<<Variable("x")>>), "exists", "m",
                              Binary(Variable("m"), ">", Variable("n")))))
    /\ variables = contract.inputs

\* --------------------------------------- the two environments side by side
\* TypeChecker.variables once check() is through the first k top-level
\* statements of the rule.
RECURSIVE CheckedThrough(_)
CheckedThrough(k) ==
    IF k = 0 THEN contract.inputs
    ELSE checkStatement(ast[k], CheckedThrough(k - 1)).vars

\* C28 (bound names at run time): on an accepted rule, whenever interpret()
\* is at a top-level statement, every name the checker has bound at that
\* point is bound in the runtime environment, and a Variable evaluated
\* there reads a bound name.
C28_CheckedNamesAreBound ==
    (checkState = "accepted" /\ runState = "running"
     /\ DOMAIN contract.inputs \subseteq DOMAIN context)
    => /\ DOMAIN CheckedThrough(pc - 1) \subseteq DOMAIN environment
       /\ AtVariable => ast[pc].expression.name \in DOMAIN environment

\* ------------------------------------------------- the relation ~ both ways
\* C29 (symmetry of ~): areTypesEqual gives the same answer with its
\* arguments swapped, so the checker's verdict on a comparison is its
\* verdict on the comparison with the operands swapped.
C29_CompatibilityIsSymmetric ==
    checkState \in {"accepted", "rejected"}
    => LET e == TheComparison
           swapped == Binary(e.right, e.operator, e.left)
       IN  /\ areTypesEqual(OperandType(e.left), OperandType(e.right))
                = areTypesEqual(OperandType(e.right), OperandType(e.left))
           /\ (checkExpression(swapped, contract.inputs).err = NoErr)
                <=> (checkState = "accepted")

\* ------------------------------------------------------- the host's record
\* Contexts with and without the extra keys y and s.
HostContexts ==
    {[x |-> VInt(0), b |-> VBool(c), u |-> Alice] : c \in BOOLEAN}
    \cup {[x |-> VInt(0), b |-> VBool(c), u |-> Alice, y |-> VInt(7), s |-> VInt(9)] :
            c \in BOOLEAN}

\* x = x + 1;   let y: int = 1;   [x].exists(s, s > 0);
\* if (b) { x = 2; }   { b = false; }   timestamp("yesterday");
HostPool ==
    {Assignment("x", Binary(Variable("x"), "+", IntLit(1))),
     VarDecl("y", TInt, IntLit(1)),
     ExpressionStmt(MacroCall(ListExpr(<<Variable("x")>>), "exists", "s",
                              Binary(Variable("s"), ">", IntLit(0)))),
     IfStmt(Variable("b"), BlockStmt(<<Assignment("x", IntLit(2))>>), FALSE, BlockStmt(<<>>)),
     BlockStmt(<<Assignment("b", BoolLit(FALSE))>>),
     ExpressionStmt(BadDate)}

InitHost ==
    /\ ast \in ProgramsOver(HostPool)
    /\ contract = NoOutputs
    /\ context \in HostContexts
    /\ InitObjects

SpecHost == InitHost /\ [][Next]_vars

====
